---- MODULE Spec2Model ----
(***************************************************************************)
(* Site-scoped interaction management backend: the interaction repository, *)
(* the site membership service, the authentication service and the         *)
(* per-request authentication gate, as state machines.                     *)
(***************************************************************************)
EXTENDS Integers, Sequences, FiniteSets, TLC

VARIABLES
    interactions,       \* table interactions: set of rows
    next_interaction_id,\* autoincrement of interactions.interaction_id
    user_site_mapping,  \* table user_site_mapping: rows in primary-key order
    user_active,        \* users.is_active, by user id
    last_login,         \* users.last_login, by user id (0 = never)
    redis,              \* key-value store: per key prefix, key -> entry with expiry
    TOKEN_BLACKLIST,    \* auth/utils.py process-local set of token strings
    tokens,             \* tokens handed out to clients
    history,            \* what has happened: login failures, logouts, site choices
    next_jti,           \* source of fresh token ids
    now,                \* wall clock, in ticks
    g,                  \* flask.g of the request in progress / last request
    resp,               \* outcome of the last operation
    pc,                 \* position of each concurrent membership request
    sites               \* the sites table and its id sequence

vars == <<interactions, next_interaction_id, user_site_mapping, user_active,
          last_login, redis, TOKEN_BLACKLIST, tokens, history, next_jti, now, g,
          resp, pc, sites>>

(***************************************************************************)
(* Bounds of the model                                                     *)
(***************************************************************************)
MaxInteractions == 2
MaxTime == 3

\* Server processes (gunicorn workers); each has its own module globals.
NumWorkers == 2
Workers == 1..NumWorkers

Sites == {1, 2}
Users == {1, 2}

(***************************************************************************)
(* Values                                                                  *)
(***************************************************************************)
\* Text is a sequence of characters; SQL NULL / Python None for a text value.
NULL == <<"NULL">>
\* None for an integer value (datetime, id).
NoInt == -1

Range(s) == {s[i] : i \in 1..Len(s)}

LowerChar(c) == CASE c = "A" -> "a" [] c = "B" -> "b" [] OTHER -> c
Lower(s) == [i \in 1..Len(s) |-> LowerChar(s[i])]

Contains(s, t) ==
    \E i \in 1..(Len(s) - Len(t) + 1) : SubSeq(s, i, i + Len(t) - 1) = t

\* column.ilike('%term%'): NULL never matches; case-insensitive substring.
ILike(col, term) == col # NULL /\ Contains(Lower(col), Lower(term))

\* Python truthiness of a text value: None and '' are falsy.
Truthy(v) == v # NULL /\ v # <<>>

\* dict.get(key) for text-valued and integer-valued keys.
Get(d, k) == IF k \in DOMAIN d THEN d[k] ELSE NULL
GetInt(d, k) == IF k \in DOMAIN d THEN d[k] ELSE NoInt

TextColumns == {"title", "type", "lead", "timezone", "location", "description", "notes"}
IntColumns == {"start_datetime", "end_datetime"}
RequiredColumns == {"title", "type", "lead", "start_datetime", "timezone"}
\* Attributes of the mapped class that hasattr() finds and setattr() can assign.
InteractionAttrs ==
    TextColumns \cup IntColumns \cup
    {"interaction_id", "site_id", "created_by", "created_at", "updated_by", "updated_at"}

(***************************************************************************)
(* Inputs the operations are exercised with                                *)
(***************************************************************************)
\* allowed_site_ids lists: empty, single site, several sites, a repeated id.
AllowedLists == {<<>>, <<1>>, <<2>>, <<2, 1>>, <<1, 1>>}

\* interaction_data dictionaries passed to create.
CreateData ==
    { [title |-> <<"a", "b">>, type |-> <<"A">>, lead |-> <<"b">>,
       start_datetime |-> 1, timezone |-> <<"a">>],
      [title |-> <<"B">>, type |-> <<"b">>, lead |-> <<"a">>,
       start_datetime |-> 2, timezone |-> <<"a">>, end_datetime |-> 3,
       location |-> <<"A", "b">>, description |-> <<"a">>, notes |-> <<"b">>],
      [title |-> <<"a">>] }

\* interaction_data dictionaries passed to update (partial field sets).
UpdateData ==
    { [title |-> <<"b">>, location |-> NULL],
      [site_id |-> 2, updated_by |-> 9],
      [bogus |-> <<"a">>],
      [lead |-> NULL] }

\* filters dictionaries passed to search: none, one or two client filters,
\* among them attempts to name a site.
Filters ==
    { <<>>,
      "search" :> <<"a">>, "search" :> <<"B">>,
      "title" :> <<"a">>, "title" :> <<>>,
      "type" :> <<"A">>, "lead" :> <<"B">>, "timezone" :> <<"a">>,
      "location" :> <<"a">>, "description" :> <<"A">>, "notes" :> NULL,
      "start_datetime" :> 2, "end_datetime" :> 1,
      "site_id" :> 2,
      ("search" :> <<"b">>) @@ ("site_id" :> 1),
      ("title" :> <<"b">>) @@ ("notes" :> <<"b">>) }

\* (page, page_size, sort_field, sort_direction) of a listing request.
ListArgs ==
    { <<1, 2, "created_at", "desc">>, <<2, 1, "interaction_id", "asc">>,
      <<1, 1, "no_such_field", "DESC">>, <<1, 2, "start_datetime", "up">> }

(***************************************************************************)
(* InteractionRepository (interactions/repositories.py)                    *)
(***************************************************************************)
ColumnNames == InteractionAttrs

\* The variant of create() in which the values of the client win.
NewInteractionFromClient(interaction_data, site_id, user_id, id, t) ==
    [k \in ColumnNames |->
        CASE k = "interaction_id" -> id
          [] k \in DOMAIN interaction_data -> interaction_data[k]
          [] k = "site_id" -> site_id
          [] k \in {"created_by", "updated_by"} -> user_id
          [] k \in {"created_at", "updated_at"} -> t
          [] k \in IntColumns -> NoInt
          [] OTHER -> NULL]

\* Interaction(**interaction_data) followed by the server-side assignments of
\* create(): site, audit users and timestamps come from the arguments.
NewInteraction(interaction_data, site_id, user_id, id, t) ==
    [k \in ColumnNames |->
        CASE k = "interaction_id" -> id
          [] k = "site_id" -> site_id
          [] k \in {"created_by", "updated_by"} -> user_id
          [] k \in {"created_at", "updated_at"} -> t
          [] k \in IntColumns -> GetInt(interaction_data, k)
          [] OTHER -> Get(interaction_data, k)]

\* SiteRepository.get_site_by_id finds a row.
SiteExists(site_id) == site_id \in DOMAIN sites.rows

\* The flush at commit: NOT NULL columns and the foreign key to sites.
CommitOk(row) ==
    /\ \A k \in RequiredColumns \cap TextColumns : row[k] # NULL
    /\ \A k \in RequiredColumns \cap IntColumns : row[k] # NoInt
    /\ SiteExists(row.site_id)

\* Rows of get_by_id's query: id filter and site_id IN (allowed_site_ids).
GetByIdUnscoped(interaction_id, allowed_site_ids) ==
    {r \in interactions : r.interaction_id = interaction_id}
GetByIdRows(interaction_id, allowed_site_ids) ==
    {r \in interactions : /\ r.interaction_id = interaction_id
                          /\ r.site_id \in Range(allowed_site_ids)}

\* The variant of update() without the audit stamp after the setattr loop.
ApplyUpdateFromClient(row, interaction_data, user_id, t) ==
    [k \in ColumnNames |->
        IF k \in DOMAIN interaction_data THEN interaction_data[k] ELSE row[k]]

\* update(): setattr for every key the instance has, then the audit stamp.
ApplyUpdate(row, interaction_data, user_id, t) ==
    [k \in ColumnNames |->
        CASE k = "updated_by" -> user_id
          [] k = "updated_at" -> t
          [] k \in DOMAIN interaction_data -> interaction_data[k]
          [] OTHER -> row[k]]

\* Base query of get_all and search: site_id IN (allowed_site_ids).
ScopedUnfiltered(allowed_site_ids) == interactions
ScopedQuery(allowed_site_ids) ==
    {r \in interactions : r.site_id \in Range(allowed_site_ids)}

\* The filter chain of search(), each filter ANDed when its value is truthy.
MatchesFilters(r, filters) ==
    /\ Truthy(Get(filters, "title")) => ILike(r.title, filters["title"])
    /\ Truthy(Get(filters, "type")) => r.type = filters["type"]
    /\ Truthy(Get(filters, "lead")) => ILike(r.lead, filters["lead"])
    /\ GetInt(filters, "start_datetime") # NoInt =>
           r.start_datetime >= filters["start_datetime"]
    /\ GetInt(filters, "end_datetime") # NoInt =>
           r.start_datetime <= filters["end_datetime"]
    /\ Truthy(Get(filters, "timezone")) => r.timezone = filters["timezone"]
    /\ Truthy(Get(filters, "location")) => ILike(r.location, filters["location"])
    /\ Truthy(Get(filters, "description")) =>
           ILike(r.description, filters["description"])
    /\ Truthy(Get(filters, "notes")) => ILike(r.notes, filters["notes"])
    /\ Truthy(Get(filters, "search")) =>
           \E c \in {"title", "lead", "type", "location", "description", "notes"} :
               ILike(r[c], filters["search"])

LowerDirection(d) == CASE d = "DESC" -> "desc" [] d = "ASC" -> "asc" [] OTHER -> d

\* getattr(Interaction, sort_field, Interaction.created_at)
SortColumn(sort_field) ==
    IF sort_field \in ColumnNames THEN sort_field ELSE "created_at"

RECURSIVE Orderings(_)
Orderings(S) ==
    IF S = {} THEN {<<>>}
    ELSE UNION {{<<x>> \o q : q \in Orderings(S \ {x})} : x \in S}

\* Every order the database may return the rows in under ORDER BY: rows with
\* equal keys come in any order.
OrderedBy(rows, sort_field, sort_direction) ==
    LET col == SortColumn(sort_field)
        desc == LowerDirection(sort_direction) = "desc"
    IN {q \in Orderings(rows) :
           \A i \in 1..(Len(q) - 1) :
               IF desc THEN q[i][col] >= q[i + 1][col]
               ELSE q[i][col] <= q[i + 1][col]}

Min(a, b) == IF a <= b THEN a ELSE b

\* query.offset((page - 1) * page_size).limit(page_size)
PageOf(q, page, page_size) ==
    LET offset == (page - 1) * page_size
    IN SubSeq(q, offset + 1, Min(offset + page_size, Len(q)))

\* Interaction.to_dict(): the columns of the row.
ToDict(r) == [k \in ColumnNames |-> r[k]]

(***************************************************************************)
(* State after construction                                                *)
(***************************************************************************)
NoRow == [absent |-> TRUE]
NoResp == [op |-> "none"]
NoG == [set |-> FALSE]
\* users.username, and a name no user has.
UsernameOf == [u \in Users |-> IF u = 1 THEN "alice" ELSE "bob"]
Usernames == {UsernameOf[u] : u \in Users} \cup {"ghost"}
\* Concurrent membership requests and the position of an idle one.
Requests == {1, 2}
Idle == [step |-> "idle"]
\* sites.name of the seeded sites.
SiteNameOf == [s \in Sites |-> IF s = 1 THEN "hq" ELSE "lab"]

Init ==
    /\ interactions = {}
    /\ next_interaction_id = 1
    /\ user_site_mapping = <<>>
    /\ user_active = [u \in Users |-> u # 2]
    /\ last_login = [u \in Users |-> 0]
    /\ redis = [blacklist |-> <<>>, attempts |-> <<>>, locked |-> <<>>]
    /\ TOKEN_BLACKLIST = [w \in Workers |-> {}]
    /\ tokens = {}
    /\ history = [streak |-> [n \in Usernames |-> [count |-> 0, last |-> 0]],
                  logged_out |-> {}, active_site |-> <<>>,
                  reset_near_lock |-> [n \in Usernames |-> FALSE]]
    /\ next_jti = 1
    /\ now = 0
    /\ g = NoG
    /\ resp = NoResp
    /\ pc = [r \in Requests |-> Idle]
    /\ sites = [rows |-> [s \in Sites |-> [name |-> SiteNameOf[s],
                                           is_active |-> TRUE]],
                next_site_id |-> 3]

dbVars == <<interactions, next_interaction_id>>
siteVars == <<user_site_mapping, sites>>
authStore ==
    <<user_active, last_login, redis, TOKEN_BLACKLIST, tokens, history, next_jti>>
authVars == <<authStore, g>>

\* The entries of one redis key space still alive at time t.
Alive(space, t) ==
    [k \in {x \in DOMAIN space : space[x].expires_at > t} |-> space[k]]

\* Time passes; redis drops the entries whose time to live has run out.
Tick ==
    /\ now < MaxTime
    /\ now' = now + 1
    /\ redis' = [blacklist |-> Alive(redis.blacklist, now + 1),
                 attempts |-> Alive(redis.attempts, now + 1),
                 locked |-> Alive(redis.locked, now + 1)]
    /\ UNCHANGED <<dbVars, siteVars, user_active, last_login, TOKEN_BLACKLIST,
                   tokens, history, next_jti, g, resp, pc>>

(***************************************************************************)
(* InteractionRepository operations                                        *)
(***************************************************************************)
\* The stored row with this primary key, whatever its site (NoRow if none).
Stored(interaction_id) ==
    IF \E r \in interactions : r.interaction_id = interaction_id
    THEN CHOOSE r \in interactions : r.interaction_id = interaction_id
    ELSE NoRow

\* Each repository method as its outcome: the result it returns or the
\* exception it raises (resp) and the table it leaves behind.
Repo_create(interaction_data, site_id, user_id) ==
    LET row == NewInteraction(interaction_data, site_id, user_id,
                              next_interaction_id, now)
        call == [op |-> "create", interaction_data |-> interaction_data,
                 site_id |-> site_id, user_id |-> user_id, at |-> now]
    IN IF CommitOk(row)
       THEN [resp |-> call @@ [result |-> "ok", interaction |-> row],
             interactions |-> interactions \cup {row},
             next_interaction_id |-> next_interaction_id + 1]
       ELSE \* rollback, the exception is re-raised
            [resp |-> call @@ [result |-> "IntegrityError"],
             interactions |-> interactions,
             next_interaction_id |-> next_interaction_id]

Repo_get_by_id(interaction_id, allowed_site_ids) ==
    LET found == GetByIdRows(interaction_id, allowed_site_ids)
    IN IF found = {}
       THEN [op |-> "get_by_id", result |-> "ResourceNotFoundError",
             interaction_id |-> interaction_id,
             allowed_site_ids |-> allowed_site_ids,
             target |-> Stored(interaction_id)]
       ELSE [op |-> "get_by_id", result |-> "ok",
             interaction_id |-> interaction_id,
             allowed_site_ids |-> allowed_site_ids,
             target |-> Stored(interaction_id),
             interaction |-> CHOOSE r \in found : TRUE]

Repo_update(interaction_id, interaction_data, allowed_site_ids, user_id) ==
    LET found == GetByIdRows(interaction_id, allowed_site_ids)
        call == [op |-> "update", interaction_id |-> interaction_id,
                 allowed_site_ids |-> allowed_site_ids,
                 interaction_data |-> interaction_data, user_id |-> user_id,
                 at |-> now, target |-> Stored(interaction_id)]
    IN IF found = {}
       THEN [resp |-> call @@ [result |-> "ResourceNotFoundError"],
             interactions |-> interactions]
       ELSE LET old == CHOOSE r \in found : TRUE
                new == ApplyUpdate(old, interaction_data, user_id, now)
            IN IF CommitOk(new) /\ new.interaction_id = old.interaction_id
               THEN [resp |-> call @@ [result |-> "ok", interaction |-> new],
                     interactions |-> (interactions \ {old}) \cup {new}]
               ELSE \* rollback, the exception is re-raised
                    [resp |-> call @@ [result |-> "IntegrityError"],
                     interactions |-> interactions]

Repo_delete(interaction_id, allowed_site_ids) ==
    LET found == GetByIdRows(interaction_id, allowed_site_ids)
        call == [op |-> "delete", interaction_id |-> interaction_id,
                 allowed_site_ids |-> allowed_site_ids,
                 target |-> Stored(interaction_id)]
    IN IF found = {}
       THEN [resp |-> call @@ [result |-> "ResourceNotFoundError"],
             interactions |-> interactions]
       ELSE [resp |-> call @@ [result |-> "ok"],
             interactions |-> interactions \ found]

\* The page of a listing, one result per order the database may use.
Listing(op, allowed_site_ids, rows, page, page_size, sort_field, sort_direction) ==
    {[op |-> op, result |-> "ok",
      allowed_site_ids |-> allowed_site_ids,
      items |-> [i \in DOMAIN PageOf(q, page, page_size) |->
                    ToDict(PageOf(q, page, page_size)[i])],
      total |-> Cardinality(rows)] :
        q \in OrderedBy(rows, sort_field, sort_direction)}

Repo_get_all(allowed_site_ids, page, page_size, sort_field, sort_direction) ==
    Listing("get_all", allowed_site_ids, ScopedQuery(allowed_site_ids),
            page, page_size, sort_field, sort_direction)

Repo_search(allowed_site_ids, filters, page, page_size, sort_field, sort_direction) ==
    {r @@ [filters |-> filters] :
        r \in Listing("search", allowed_site_ids,
                      {x \in ScopedQuery(allowed_site_ids) : MatchesFilters(x, filters)},
                      page, page_size, sort_field, sort_direction)}

\* The repository called directly.
RepoCreate(interaction_data, site_id, user_id) ==
    /\ next_interaction_id <= MaxInteractions
    /\ LET o == Repo_create(interaction_data, site_id, user_id)
       IN /\ interactions' = o.interactions
          /\ next_interaction_id' = o.next_interaction_id
          /\ resp' = o.resp
    /\ UNCHANGED <<siteVars, authVars, now, pc>>

RepoGetById(interaction_id, allowed_site_ids) ==
    /\ resp' = Repo_get_by_id(interaction_id, allowed_site_ids)
    /\ UNCHANGED <<dbVars, siteVars, authVars, now, pc>>

RepoUpdate(interaction_id, interaction_data, allowed_site_ids, user_id) ==
    /\ LET o == Repo_update(interaction_id, interaction_data, allowed_site_ids, user_id)
       IN /\ interactions' = o.interactions
          /\ resp' = o.resp
    /\ UNCHANGED <<next_interaction_id, siteVars, authVars, now, pc>>

RepoDelete(interaction_id, allowed_site_ids) ==
    /\ LET o == Repo_delete(interaction_id, allowed_site_ids)
       IN /\ interactions' = o.interactions
          /\ resp' = o.resp
    /\ UNCHANGED <<next_interaction_id, siteVars, authVars, now, pc>>

RepoGetAll(allowed_site_ids, page, page_size, sort_field, sort_direction) ==
    /\ resp' \in Repo_get_all(allowed_site_ids, page, page_size, sort_field,
                              sort_direction)
    /\ UNCHANGED <<dbVars, siteVars, authVars, now, pc>>

RepoSearch(allowed_site_ids, filters, page, page_size, sort_field, sort_direction) ==
    /\ resp' \in Repo_search(allowed_site_ids, filters, page, page_size,
                             sort_field, sort_direction)
    /\ UNCHANGED <<dbVars, siteVars, authVars, now, pc>>

InteractionIds == 1..MaxInteractions

\* Create, read, update and delete through the repository: user 1 creates,
\* user 2 updates.
NextRepo ==
    \/ \E d \in CreateData, s \in Sites : RepoCreate(d, s, 1)
    \/ \E i \in InteractionIds, a \in AllowedLists : RepoGetById(i, a)
    \/ \E i \in InteractionIds, d \in UpdateData, a \in AllowedLists :
           RepoUpdate(i, d, a, 2)
    \/ \E i \in InteractionIds, a \in AllowedLists : RepoDelete(i, a)

SpecRepo == Init /\ [][NextRepo]_vars

\* Listing and search over a table that one user fills, moves and empties.
NextSearch ==
    \/ \E d \in CreateData, s \in Sites : RepoCreate(d, s, 1)
    \/ \E i \in InteractionIds, a \in AllowedLists :
           RepoUpdate(i, [site_id |-> 2, updated_by |-> 9], a, 1)
    \/ \E i \in InteractionIds, a \in AllowedLists : RepoDelete(i, a)
    \/ \E a \in AllowedLists, l \in ListArgs : RepoGetAll(a, l[1], l[2], l[3], l[4])
    \/ \E a \in AllowedLists, fl \in Filters, l \in ListArgs :
           RepoSearch(a, fl, l[1], l[2], l[3], l[4])

SpecSearch == Init /\ [][NextSearch]_vars

(***************************************************************************)
(* Site scoping of the repository                                          *)
(***************************************************************************)
InScope(allowed_site_ids) ==
    {r \in interactions : r.site_id \in Range(allowed_site_ids)}

C2_ListingsStayInScope ==
    resp.op \in {"get_all", "search"} =>
        /\ \A i \in DOMAIN resp.items :
               /\ resp.items[i].site_id \in Range(resp.allowed_site_ids)
               /\ resp.items[i] \in InScope(resp.allowed_site_ids)
        /\ resp.total <= Cardinality(InScope(resp.allowed_site_ids))
        /\ resp.op = "get_all" =>
               resp.total = Cardinality(InScope(resp.allowed_site_ids))
        /\ resp.total >= Len(resp.items)

\* A generic search matched an interaction of an allowed site while an
\* interaction of another site, matching the same filters, stayed out.
C2_Witness ==
    /\ resp.op = "search"
    /\ Truthy(Get(resp.filters, "search"))
    /\ Len(resp.items) >= 1
    /\ \E r \in interactions :
           /\ r.site_id \notin Range(resp.allowed_site_ids)
           /\ MatchesFilters(r, resp.filters)
    /\ resp.total < Cardinality(interactions)

(***************************************************************************)
(* Tokens (utils/security.py, auth/utils.py)                               *)
(***************************************************************************)
\* Python None where a dictionary or an object is expected.
None == [none |-> TRUE]

\* Lifetime of a token in clock ticks (expiration_hours, scaled).
JWT_EXPIRATION_HOURS == 3
MaxTokens == 2

\* generate_token: the payload plus the standard claims, signed.
generate_token(payload, jti) ==
    [payload |-> [exp |-> now + JWT_EXPIRATION_HOURS, iat |-> now, jti |-> jti]
                     @@ payload,
     signature |-> "valid"]

\* What jwt.decode raises for a token at time t, in the order it checks: the
\* string is no JWT, the signature does not verify, the token has expired;
\* then the required-claims check of decode_token.  "none" when the token
\* decodes.
decode_failure(token, t) ==
    IF token = None THEN "DecodeError"
    ELSE IF token.signature = "malformed" THEN "DecodeError"
    ELSE IF token.signature # "valid" THEN "InvalidSignatureError"
    ELSE IF token.payload.exp <= t THEN "ExpiredSignatureError"
    ELSE IF ~({"exp", "iat", "jti"} \subseteq DOMAIN token.payload)
         THEN "missing claims"
    ELSE "none"

\* decode_token: the payload of a token whose signature verifies, that has not
\* expired and carries exp, iat and jti; None otherwise: both except clauses
\* and the claims check return None.
decode_token(token) ==
    IF decode_failure(token, now) = "none" THEN token.payload ELSE None

\* A token whose signature does not verify.
Tampered(token) == [token EXCEPT !.signature = "invalid"]

\* A string that is not a JWT (a token cut short).
Garbled(token) == [token EXCEPT !.signature = "malformed"]

\* What a client can put in the Authorization header: nothing, a token it was
\* issued, or such a token altered.
PresentedTokens == {None} \cup tokens \cup {Tampered(t) : t \in tokens}

\* validate_auth_token in a worker: the in-memory blacklist of that process,
\* then decode_token.
validate_auth_token(worker, token) ==
    IF token \in TOKEN_BLACKLIST[worker] THEN None ELSE decode_token(token)

\* get_user_from_token: the user row with id payload['sub'].
get_user_from_token(token_data) ==
    IF "sub" \notin DOMAIN token_data THEN None
    ELSE IF token_data.sub \notin Users THEN None
    ELSE [id |-> token_data.sub, is_active |-> user_active[token_data.sub]]

\* token_data.get('site_ids', [])
TokenSiteIds(token_data) ==
    IF "site_ids" \in DOMAIN token_data THEN token_data.site_ids ELSE <<>>

\* The variant of the resolution that trusts the requested site.
get_site_context_unchecked(token_data, site_id) ==
    IF site_id # NoInt
    THEN [id |-> site_id, available_sites |-> TokenSiteIds(token_data)]
    ELSE IF TokenSiteIds(token_data) = <<>> THEN None
    ELSE [id |-> TokenSiteIds(token_data)[1],
          available_sites |-> TokenSiteIds(token_data)]

\* get_site_context(token_data, site_id); site_id = NoInt stands for None.
get_site_context(token_data, site_id) ==
    LET site_ids == TokenSiteIds(token_data)
    IN IF site_ids = <<>> THEN None
       ELSE IF site_id # NoInt
            THEN IF site_id \in Range(site_ids)
                 THEN [id |-> site_id, available_sites |-> site_ids]
                 ELSE None
            ELSE [id |-> site_ids[1], available_sites |-> site_ids]

\* The site_id query parameter as sent: absent (NULL) or a string.
SiteArgs == {NULL, <<"1">>, <<"2">>, <<"3">>, <<"x">>}

\* int(requested_site_id), None (NoInt) when absent or not a number.
ParseSiteArg(arg) ==
    CASE arg = <<"1">> -> 1
      [] arg = <<"2">> -> 2
      [] arg = <<"3">> -> 3
      [] OTHER -> NoInt

(***************************************************************************)
(* Authentication gate (auth/middlewares.py)                               *)
(***************************************************************************)
\* The variant of the gate that tells the client why the token failed.
auth_middleware_telling(worker, token, arg) ==
    LET token_data == validate_auth_token(worker, token)
        user == get_user_from_token(token_data)
        site_context == get_site_context(token_data, ParseSiteArg(arg))
    IN IF token = None THEN [status |-> 401, description |-> "Authentication required"]
       ELSE IF token_data = None
            THEN [status |-> 401, description |-> decode_failure(token, now)]
       ELSE IF user = None \/ ~user.is_active
            THEN [status |-> 401, description |-> "User not found or inactive"]
       ELSE IF site_context = None
            THEN [status |-> 403,
                  description |-> "Invalid site context or access denied"]
       ELSE [status |-> 200, user |-> user, site_context |-> site_context,
             token_data |-> token_data]

\* auth_middleware on a protected endpoint: the response it aborts with, or
\* the user and site context it publishes in flask.g.
auth_middleware(worker, token, arg) ==
    LET token_data == validate_auth_token(worker, token)
        user == get_user_from_token(token_data)
        site_context == get_site_context(token_data, ParseSiteArg(arg))
    IN IF token = None THEN [status |-> 401, description |-> "Authentication required"]
       ELSE IF token_data = None
            THEN [status |-> 401,
                  description |-> "Invalid or expired authentication token"]
       ELSE IF user = None \/ ~user.is_active
            THEN [status |-> 401, description |-> "User not found or inactive"]
       ELSE IF site_context = None
            THEN [status |-> 403,
                  description |-> "Invalid site context or access denied"]
       ELSE [status |-> 200, user |-> user, site_context |-> site_context,
             token_data |-> token_data]

\* flask.g after the gate let the request through.
Published(gate) == [set |-> TRUE, user |-> gate.user, site_context |-> gate.site_context]

(***************************************************************************)
(* InteractionService and the controllers (interactions/services.py,       *)
(* interactions/controllers.py)                                            *)
(***************************************************************************)
\* Python values handed from the controllers to the service, with their type.
PyInt(n) == [type |-> "int", value |-> n]
PyDict(d) == [type |-> "dict", value |-> d]
PyUser(u) == [type |-> "User", value |-> u]

\* The negation of `not x or not isinstance(x, int) or x <= 0`.
ValidIntArg(x) == x.type = "int" /\ x.value > 0

\* Fields the create and update schemas declare.
SchemaFields ==
    {"title", "type", "lead", "start_datetime", "timezone", "end_datetime",
     "location", "description", "notes"}

\* Schema.load: unknown fields are rejected, required fields must be present.
SchemaLoads(data, is_creation) ==
    /\ DOMAIN data \subseteq SchemaFields
    /\ is_creation => \A k \in RequiredColumns : k \in DOMAIN data

\* Field length limits, scaled down to the texts of the model.
MAX_TITLE_LENGTH == 2
MAX_LEAD_LENGTH == 2
MAX_LOCATION_LENGTH == 2
MAX_DESCRIPTION_LENGTH == 2
MAX_NOTES_LENGTH == 2
MaxLengthOf ==
    ("title" :> MAX_TITLE_LENGTH) @@ ("lead" :> MAX_LEAD_LENGTH) @@
    ("location" :> MAX_LOCATION_LENGTH) @@
    ("description" :> MAX_DESCRIPTION_LENGTH) @@ ("notes" :> MAX_NOTES_LENGTH)

\* The interaction types and the IANA zones, as the texts of the model.
INTERACTION_TYPES == {<<"A">>, <<"b">>}
is_valid_timezone(timezone) == timezone \in {<<"a">>, <<"UTC">>}

\* validate_required_field: None and blank strings are missing values.
validate_required_field(field_value, field_name) ==
    IF field_name \in IntColumns THEN field_value # NoInt
    ELSE field_value # NULL /\ field_value # <<>>

\* validate_date_range: start <= end, or one of the two is None.
validate_date_range(start_datetime, end_datetime) ==
    start_datetime = NoInt \/ end_datetime = NoInt \/
    start_datetime <= end_datetime

\* The first error only: validation that stops at the first invalid field.
validate_interaction_first(data, is_creation) ==
    IF is_creation /\ \E k \in RequiredColumns : k \notin DOMAIN data
    THEN {CHOOSE k \in RequiredColumns : k \notin DOMAIN data}
    ELSE {}

\* validate_interaction: the keys of the errors dictionary, every check run.
validate_interaction(data, is_creation) ==
    {k \in RequiredColumns :
        is_creation /\ (k \notin DOMAIN data \/
                        ~validate_required_field(data[k], k))}
    \cup {k \in DOMAIN MaxLengthOf :
              k \in DOMAIN data /\ data[k] # NULL /\
              Len(data[k]) > MaxLengthOf[k]}
    \cup {k \in {"type"} :
              k \in DOMAIN data /\ data[k] # NULL /\
              data[k] \notin INTERACTION_TYPES}
    \cup {k \in {"timezone"} :
              k \in DOMAIN data /\ data[k] # NULL /\
              ~is_valid_timezone(data[k])}
    \cup {k \in {"end_datetime"} :
              "start_datetime" \in DOMAIN data /\ k \in DOMAIN data /\
              ~validate_date_range(data.start_datetime, data.end_datetime)}

\* validate_interaction and validate_date_range: no error.
Validates(data, is_creation) == validate_interaction(data, is_creation) = {}

\* Outcome of a service call that raised before reaching the repository.
Raised(exception) ==
    [raised |-> exception, repository |-> None, interactions |-> interactions,
     next_interaction_id |-> next_interaction_id]

\* Outcome of a service call that went through the repository.
Returned(r, rows, next_id) ==
    [raised |-> IF r.result = "ok" THEN "none" ELSE r.result, repository |-> r,
     interactions |-> rows, next_interaction_id |-> next_id]

\* InteractionService._validate_site_access returns [site_id] or raises.
Svc_get_by_id(interaction_id, site_id) ==
    IF interaction_id <= 0 THEN Raised("ValueError")
    ELSE IF ~ValidIntArg(site_id) THEN Raised("ValueError")
    ELSE Returned(Repo_get_by_id(interaction_id, <<site_id.value>>),
                  interactions, next_interaction_id)

Svc_create(interaction_data, site_id, user_id) ==
    IF ~ValidIntArg(site_id) THEN Raised("ValueError")
    ELSE IF ~ValidIntArg(user_id) THEN Raised("ValueError")
    ELSE IF ~Validates(interaction_data, TRUE) THEN Raised("ValidationError")
    ELSE LET o == Repo_create(interaction_data, site_id.value, user_id.value)
         IN Returned(o.resp, o.interactions, o.next_interaction_id)

Svc_update(interaction_id, interaction_data, site_id, user_id) ==
    IF interaction_id <= 0 THEN Raised("ValueError")
    ELSE IF ~ValidIntArg(site_id) THEN Raised("ValueError")
    ELSE IF ~ValidIntArg(user_id) THEN Raised("ValueError")
    ELSE IF ~Validates(interaction_data, FALSE) THEN Raised("ValidationError")
    ELSE LET o == Repo_update(interaction_id, interaction_data,
                              <<site_id.value>>, user_id.value)
         IN Returned(o.resp, o.interactions, next_interaction_id)

Svc_delete(interaction_id, site_id) ==
    IF interaction_id <= 0 THEN Raised("ValueError")
    ELSE IF ~ValidIntArg(site_id) THEN Raised("ValueError")
    ELSE LET o == Repo_delete(interaction_id, <<site_id.value>>)
         IN Returned(o.resp, o.interactions, next_interaction_id)

DEFAULT_PAGE == 1
DEFAULT_PAGE_SIZE == 25

\* `if not page or not isinstance(page, int) or page <= 0: page = DEFAULT_PAGE`
\* and the same for page_size; None is NoInt.  Nothing else is done to them.
PageArg(page) == IF page <= 0 THEN DEFAULT_PAGE ELSE page
PageSizeArg(page_size) == IF page_size <= 0 THEN DEFAULT_PAGE_SIZE ELSE page_size

Svc_get_all(site_id, page, page_size, sort_field, sort_direction) ==
    IF ~ValidIntArg(site_id) THEN {Raised("ValueError")}
    ELSE {Returned(r, interactions, next_interaction_id) :
             r \in Repo_get_all(<<site_id.value>>, PageArg(page),
                                PageSizeArg(page_size), sort_field,
                                sort_direction)}

Svc_search(site_id, filters, page, page_size, sort_field, sort_direction) ==
    IF ~ValidIntArg(site_id) THEN {Raised("ValueError")}
    ELSE {Returned(r, interactions, next_interaction_id) :
             r \in Repo_search(<<site_id.value>>, filters, PageArg(page),
                               PageSizeArg(page_size), sort_field,
                               sort_direction)}

\* HTTP status of a controller for the exception its service call raised.
StatusOf(raised, ok) ==
    CASE raised = "none" -> ok
      [] raised = "ResourceNotFoundError" -> 404
      [] raised = "ValidationError" -> 400
      [] OTHER -> 500

\* Each controller reads g.site_context and g.user and passes them on as the
\* site_id and user_id arguments of the service.
Ctl_get_interaction(gate, interaction_id) ==
    LET o == Svc_get_by_id(interaction_id, PyDict(gate.site_context))
    IN o @@ [status |-> StatusOf(o.raised, 200)]

Ctl_create_interaction(gate, data) ==
    IF data = <<>> \/ ~SchemaLoads(data, TRUE)
    THEN Raised("BadRequest") @@ [status |-> 400]
    ELSE LET o == Svc_create(data, PyDict(gate.site_context), PyUser(gate.user))
         IN o @@ [status |-> StatusOf(o.raised, 201)]

Ctl_update_interaction(gate, interaction_id, data) ==
    IF data = <<>> \/ ~SchemaLoads(data, FALSE)
    THEN Raised("BadRequest") @@ [status |-> 400]
    ELSE LET o == Svc_update(interaction_id, data, PyDict(gate.site_context),
                             PyUser(gate.user))
         IN o @@ [status |-> StatusOf(o.raised, 200)]

Ctl_delete_interaction(gate, interaction_id) ==
    LET o == Svc_delete(interaction_id, PyDict(gate.site_context))
    IN o @@ [status |-> StatusOf(o.raised, 200)]

\* Fields InteractionSearchSchema declares.
SearchSchemaFields ==
    {"search", "title", "type", "lead", "start_date", "end_date", "location",
     "page", "per_page", "sort_by", "sort_direction"}

\* get_interactions: every query parameter but the paging ones is a filter;
\* with filters the request is a search, without it is a listing.  A service
\* error other than ValidationError is answered with 500.
Ctl_get_interactions(gate, params) ==
    IF params # <<>>
    THEN IF ~(DOMAIN params \subseteq SearchSchemaFields)
         THEN {Raised("BadRequest") @@ [status |-> 400]}
         ELSE {o @@ [status |-> IF o.raised \in {"none", "ValidationError"}
                                THEN StatusOf(o.raised, 200) ELSE 500] :
                  o \in Svc_search(PyDict(gate.site_context), params, DEFAULT_PAGE,
                                   DEFAULT_PAGE_SIZE, "created_at", "desc")}
    ELSE {o @@ [status |-> IF o.raised \in {"none", "ValidationError"}
                           THEN StatusOf(o.raised, 200) ELSE 500] :
             o \in Svc_get_all(PyDict(gate.site_context), DEFAULT_PAGE,
                               DEFAULT_PAGE_SIZE, "created_at", "desc")}

\* Query strings of the requests: nothing, a site to act in, filters.
QueryParams ==
    { <<>>, "site_id" :> <<"2">>, "site_id" :> <<"3">>, "search" :> <<"a">>,
      "notes" :> <<"a">> }

\* JSON bodies of create and update requests.
Bodies ==
    { <<>>, [title |-> <<"b">>], [title |-> <<"b">>, site_id |-> 2],
      [title |-> <<"a", "b">>, type |-> <<"A">>, lead |-> <<"b">>,
       start_datetime |-> 1, timezone |-> <<"a">>] }

\* A request to a protected endpoint that the gate refused.
Aborted(endpoint, token, gate) ==
    /\ g' = NoG
    /\ resp' = [op |-> "http", endpoint |-> endpoint, token |-> token,
                status |-> gate.status, raised |-> gate.description,
                repository |-> None]
    /\ UNCHANGED <<dbVars, siteVars, authStore, now, pc>>

\* A request the gate let through to its controller.
Served(endpoint, token, gate, o) ==
    /\ g' = Published(gate)
    /\ (o.repository # None /\ o.repository.op = "create") =>
           next_interaction_id <= MaxInteractions
    /\ interactions' = o.interactions
    /\ next_interaction_id' = o.next_interaction_id
    /\ resp' = [op |-> "http", endpoint |-> endpoint, token |-> token,
                status |-> o.status, raised |-> o.raised,
                repository |-> o.repository]
    /\ UNCHANGED <<siteVars, authStore, now, pc>>

\* The gate of a deployment with one server process: worker 1 serves.
Gate(token, params) == auth_middleware(1, token, Get(params, "site_id"))

GetInteractions(token, params) ==
    LET gate == Gate(token, params)
    IN IF gate.status # 200 THEN Aborted("get_interactions", token, gate)
       ELSE \E o \in Ctl_get_interactions(gate, params) :
                Served("get_interactions", token, gate, o)

GetInteraction(token, params, interaction_id) ==
    LET gate == Gate(token, params)
    IN IF gate.status # 200 THEN Aborted("get_interaction", token, gate)
       ELSE Served("get_interaction", token, gate,
                   Ctl_get_interaction(gate, interaction_id))

CreateInteraction(token, params, data) ==
    LET gate == Gate(token, params)
    IN IF gate.status # 200 THEN Aborted("create_interaction", token, gate)
       ELSE Served("create_interaction", token, gate,
                   Ctl_create_interaction(gate, data))

UpdateInteraction(token, params, interaction_id, data) ==
    LET gate == Gate(token, params)
    IN IF gate.status # 200 THEN Aborted("update_interaction", token, gate)
       ELSE Served("update_interaction", token, gate,
                   Ctl_update_interaction(gate, interaction_id, data))

DeleteInteraction(token, params, interaction_id) ==
    LET gate == Gate(token, params)
    IN IF gate.status # 200 THEN Aborted("delete_interaction", token, gate)
       ELSE Served("delete_interaction", token, gate,
                   Ctl_delete_interaction(gate, interaction_id))

\* create_auth_token(user_id, site_ids): a token whose payload lists the sites
\* under 'site_ids'.
TokenSiteLists == {<<>>, <<1>>, <<2, 1>>}

CreateAuthToken(user_id, site_ids) ==
    /\ next_jti <= MaxTokens
    /\ tokens' = tokens \cup
           {generate_token([sub |-> user_id, site_ids |-> site_ids], next_jti)}
    /\ next_jti' = next_jti + 1
    /\ UNCHANGED <<dbVars, siteVars, user_active, last_login, redis,
                   TOKEN_BLACKLIST, history, g, resp, now, pc>>

NextCtl ==
    \/ \E l \in TokenSiteLists : CreateAuthToken(1, l)
    \/ \E s \in Sites : RepoCreate([title |-> <<"a">>, type |-> <<"A">>,
                                     lead |-> <<"b">>, start_datetime |-> 1,
                                     timezone |-> <<"a">>], s, 1)
    \/ \E t \in PresentedTokens, q \in QueryParams : GetInteractions(t, q)
    \/ \E t \in PresentedTokens, q \in QueryParams, i \in InteractionIds :
           GetInteraction(t, q, i)
    \/ \E t \in PresentedTokens, q \in QueryParams, d \in Bodies :
           CreateInteraction(t, q, d)
    \/ \E t \in PresentedTokens, q \in QueryParams, i \in InteractionIds,
          d \in Bodies : UpdateInteraction(t, q, i, d)
    \/ \E t \in PresentedTokens, q \in QueryParams, i \in InteractionIds :
           DeleteInteraction(t, q, i)

SpecCtl == Init /\ [][NextCtl]_vars

\* The repository call of a request ran with exactly this site as its scope.
ScopedTo(r, site_id) ==
    IF r.op = "create"
    THEN r.result = "ok" => r.interaction.site_id = site_id
    ELSE r.allowed_site_ids = <<site_id>>

\* C3: every interaction request that passed the gate with a well-formed
\* body and query runs its operation at the repository, scoped to exactly the
\* active site the gate published.
C3_ControllersScopeToActiveSite ==
    (resp.op = "http" /\ g # NoG /\ resp.status # 400) =>
        /\ resp.repository # None
        /\ ScopedTo(resp.repository, g.site_context.id)

(***************************************************************************)
(* Site memberships (sites/services.py, sites/repositories.py,             *)
(* auth/services.py)                                                       *)
(***************************************************************************)
DEFAULT_SITE_ROLE == "user"
ADMIN_ROLE == "admin"

\* Site ids of membership requests: a site that exists and one that does not.
SiteIds == {1, 3}
\* Role strings of requests.
Roles == {"admin", "user", "Admin", "owner"}

\* str.lower() on the role strings.
RoleLower(role) == IF role = "Admin" THEN "admin" ELSE role

\* Indices of the user_site_mapping rows of this user and site, in key order.
Rows(m, user_id, site_id) ==
    {i \in DOMAIN m : m[i].user_id = user_id /\ m[i].site_id = site_id}

FirstRow(m, user_id, site_id) ==
    CHOOSE i \in Rows(m, user_id, site_id) :
        \A j \in Rows(m, user_id, site_id) : i <= j

RemoveAt(m, i) == SubSeq(m, 1, i - 1) \o SubSeq(m, i + 1, Len(m))

\* SiteRepository.get_user_role_for_site: role of the first row, or None.
get_user_role_for_site(m, user_id, site_id) ==
    IF Rows(m, user_id, site_id) = {} THEN "None"
    ELSE m[FirstRow(m, user_id, site_id)].role

\* SiteService.get_admin_count_for_site: one user per joined row of the site,
\* counted when that user's role is admin.
get_admin_count_for_site(m, site_id) ==
    Cardinality({i \in DOMAIN m :
                    /\ m[i].site_id = site_id
                    /\ get_user_role_for_site(m, m[i].user_id, site_id) = ADMIN_ROLE})

\* SiteRepository.add_user_to_site: the existing row is returned untouched.
SiteRepo_add_user_to_site(m, user_id, site_id, role) ==
    IF Rows(m, user_id, site_id) # {} THEN [result |-> "UserSite", mapping |-> m]
    ELSE [result |-> "UserSite",
          mapping |-> Append(m, [user_id |-> user_id, site_id |-> site_id,
                                 role |-> role])]

SiteRepo_remove_user_from_site(m, user_id, site_id) ==
    IF Rows(m, user_id, site_id) = {} THEN [result |-> "False", mapping |-> m]
    ELSE [result |-> "True",
          mapping |-> RemoveAt(m, FirstRow(m, user_id, site_id))]

SiteRepo_update_user_site_role(m, user_id, site_id, new_role) ==
    IF Rows(m, user_id, site_id) = {} THEN [result |-> "None", mapping |-> m]
    ELSE [result |-> "UserSite",
          mapping |-> [m EXCEPT ![FirstRow(m, user_id, site_id)].role = new_role]]

\* The part of SiteService.remove_user_from_site before the repository call:
\* the rejection it returns, or "proceed".
RemoveCheck(m, user_id, site_id) ==
    IF ~SiteExists(site_id) THEN "False"
    ELSE IF get_user_role_for_site(m, user_id, site_id) = ADMIN_ROLE /\
            get_admin_count_for_site(m, site_id) <= 1
         THEN "False"
    ELSE "proceed"

\* The part of SiteService.update_user_site_role before the repository call.
UpdateRoleCheck(m, user_id, site_id, new_role) ==
    IF ~SiteExists(site_id) THEN "None"
    ELSE IF RoleLower(new_role) \notin {DEFAULT_SITE_ROLE, ADMIN_ROLE}
         THEN "ValueError"
    ELSE IF get_user_role_for_site(m, user_id, site_id) = ADMIN_ROLE /\
            RoleLower(new_role) # ADMIN_ROLE /\
            get_admin_count_for_site(m, site_id) <= 1
         THEN "ValueError"
    ELSE "proceed"

Svc_add_user_to_site(m, user_id, site_id, role) ==
    IF ~SiteExists(site_id) THEN [result |-> "ValueError", mapping |-> m]
    ELSE IF RoleLower(role) \notin {DEFAULT_SITE_ROLE, ADMIN_ROLE}
         THEN [result |-> "ValueError", mapping |-> m]
    ELSE SiteRepo_add_user_to_site(m, user_id, site_id, RoleLower(role))

Svc_remove_user_from_site(m, user_id, site_id) ==
    IF RemoveCheck(m, user_id, site_id) # "proceed"
    THEN [result |-> RemoveCheck(m, user_id, site_id), mapping |-> m]
    ELSE SiteRepo_remove_user_from_site(m, user_id, site_id)

Svc_update_user_site_role(m, user_id, site_id, new_role) ==
    IF UpdateRoleCheck(m, user_id, site_id, new_role) # "proceed"
    THEN [result |-> UpdateRoleCheck(m, user_id, site_id, new_role), mapping |-> m]
    ELSE SiteRepo_update_user_site_role(m, user_id, site_id, RoleLower(new_role))

\* AuthService.associate_user_with_site: an existing row takes the given
\* role as it is; otherwise a row is added.
associate_user_with_site(m, user_id, site_id, role) ==
    IF user_id \notin Users THEN [result |-> "BadRequest", mapping |-> m]
    ELSE IF ~SiteExists(site_id) THEN [result |-> "BadRequest", mapping |-> m]
    ELSE IF Rows(m, user_id, site_id) # {}
         THEN [result |-> "UserSite",
               mapping |-> [m EXCEPT ![FirstRow(m, user_id, site_id)].role = role]]
    ELSE [result |-> "UserSite",
          mapping |-> Append(m, [user_id |-> user_id, site_id |-> site_id,
                                 role |-> role])]

\* Sites with an admin membership.
SitesWithAdmin(m) == {s \in Sites : get_admin_count_for_site(m, s) >= 1}

\* A membership operation run on its own, from request to commit.
Membership(op, user_id, site_id, role, o) ==
    /\ user_site_mapping' = o.mapping
    /\ resp' = [op |-> op, user_id |-> user_id, site_id |-> site_id,
                role |-> role, result |-> o.result,
                had_admin |-> SitesWithAdmin(user_site_mapping),
                role_before |-> get_user_role_for_site(user_site_mapping,
                                                       user_id, site_id),
                changed |-> o.mapping # user_site_mapping]
    /\ UNCHANGED <<dbVars, sites, authVars, now, pc>>

AddUserToSite(user_id, site_id, role) ==
    Membership("add_user_to_site", user_id, site_id, role,
               Svc_add_user_to_site(user_site_mapping, user_id, site_id, role))

RemoveUserFromSite(user_id, site_id) ==
    Membership("remove_user_from_site", user_id, site_id, "None",
               Svc_remove_user_from_site(user_site_mapping, user_id, site_id))

UpdateUserSiteRole(user_id, site_id, new_role) ==
    Membership("update_user_site_role", user_id, site_id, new_role,
               Svc_update_user_site_role(user_site_mapping, user_id, site_id,
                                         new_role))

AssociateUserWithSite(user_id, site_id, role) ==
    Membership("associate_user_with_site", user_id, site_id, role,
               associate_user_with_site(user_site_mapping, user_id, site_id, role))

NextSites ==
    \/ \E u \in Users, s \in SiteIds, r \in Roles : AddUserToSite(u, s, r)
    \/ \E u \in Users, s \in SiteIds : RemoveUserFromSite(u, s)
    \/ \E u \in Users, s \in SiteIds, r \in Roles : UpdateUserSiteRole(u, s, r)
    \/ \E u \in Users, s \in SiteIds, r \in Roles : AssociateUserWithSite(u, s, r)

SpecSites == Init /\ [][NextSites]_vars

MembershipOps ==
    {"add_user_to_site", "remove_user_from_site", "update_user_site_role",
     "associate_user_with_site"}

\* The outcome the last membership call has when it is made again now.
Repeated ==
    CASE resp.op = "add_user_to_site" ->
             Svc_add_user_to_site(user_site_mapping, resp.user_id, resp.site_id,
                                  resp.role)
      [] resp.op = "remove_user_from_site" ->
             Svc_remove_user_from_site(user_site_mapping, resp.user_id,
                                       resp.site_id)
      [] resp.op = "update_user_site_role" ->
             Svc_update_user_site_role(user_site_mapping, resp.user_id,
                                       resp.site_id, resp.role)
      [] OTHER ->
             associate_user_with_site(user_site_mapping, resp.user_id,
                                      resp.site_id, resp.role)

\* C4: a membership operation never takes the last admin from a site that had
\* one; a rejected operation leaves the memberships as they were and is
\* rejected the same way when repeated.
C4_LastAdminKept ==
    resp.op \in MembershipOps =>
        /\ resp.had_admin \subseteq SitesWithAdmin(user_site_mapping)
        /\ resp.result \in {"False", "None", "ValueError", "BadRequest"} =>
               /\ ~resp.changed
               /\ Repeated.result = resp.result
               /\ Repeated.mapping = user_site_mapping

(***************************************************************************)
(* Membership requests served concurrently: each request reads (the role   *)
(* and admin-count queries of SiteService) and later writes (the           *)
(* repository call and its commit), and another request may run between.   *)
(***************************************************************************)
\* The local variables of a request after its reads: the role of the user
\* and, read only for an admin, the number of admins of the site.
ReadRole(user_id, site_id) ==
    get_user_role_for_site(user_site_mapping, user_id, site_id)

ReadAdminCount(user_id, site_id) ==
    IF ReadRole(user_id, site_id) = ADMIN_ROLE
    THEN get_admin_count_for_site(user_site_mapping, site_id)
    ELSE NoInt

RaceReply(op, r, result, admin_count) ==
    [op |-> op, request |-> r, result |-> result, admin_count |-> admin_count,
     had_admin |-> SitesWithAdmin(user_site_mapping)]

\* SiteService.remove_user_from_site up to the repository call.
BeginRemove(r, user_id, site_id) ==
    /\ pc[r] = Idle
    /\ IF RemoveCheck(user_site_mapping, user_id, site_id) # "proceed"
       THEN /\ resp' = RaceReply("remove", r,
                                 RemoveCheck(user_site_mapping, user_id, site_id),
                                 ReadAdminCount(user_id, site_id))
            /\ UNCHANGED pc
       ELSE /\ pc' = [pc EXCEPT ![r] = [step |-> "remove", user_id |-> user_id,
                                        site_id |-> site_id,
                                        admin_count |->
                                            ReadAdminCount(user_id, site_id)]]
            /\ UNCHANGED resp
    /\ UNCHANGED <<dbVars, siteVars, authVars, now>>

\* SiteRepository.remove_user_from_site: find the row, delete it, commit.
CommitRemove(r) ==
    /\ pc[r].step = "remove"
    /\ LET o == SiteRepo_remove_user_from_site(user_site_mapping, pc[r].user_id,
                                               pc[r].site_id)
       IN /\ user_site_mapping' = o.mapping
          /\ resp' = RaceReply("remove", r, o.result, pc[r].admin_count)
    /\ pc' = [pc EXCEPT ![r] = Idle]
    /\ UNCHANGED <<dbVars, sites, authVars, now>>

\* SiteService.update_user_site_role up to the repository call.
BeginUpdateRole(r, user_id, site_id, new_role) ==
    /\ pc[r] = Idle
    /\ IF UpdateRoleCheck(user_site_mapping, user_id, site_id, new_role) # "proceed"
       THEN /\ resp' = RaceReply("update_role", r,
                                 UpdateRoleCheck(user_site_mapping, user_id,
                                                 site_id, new_role),
                                 ReadAdminCount(user_id, site_id))
            /\ UNCHANGED pc
       ELSE /\ pc' = [pc EXCEPT ![r] = [step |-> "update_role",
                                        user_id |-> user_id, site_id |-> site_id,
                                        new_role |-> RoleLower(new_role),
                                        admin_count |->
                                            ReadAdminCount(user_id, site_id)]]
            /\ UNCHANGED resp
    /\ UNCHANGED <<dbVars, siteVars, authVars, now>>

\* SiteRepository.update_user_site_role: find the row, set the role, commit.
CommitUpdateRole(r) ==
    /\ pc[r].step = "update_role"
    /\ LET o == SiteRepo_update_user_site_role(user_site_mapping, pc[r].user_id,
                                               pc[r].site_id, pc[r].new_role)
       IN /\ user_site_mapping' = o.mapping
          /\ resp' = RaceReply("update_role", r, o.result, pc[r].admin_count)
    /\ pc' = [pc EXCEPT ![r] = Idle]
    /\ UNCHANGED <<dbVars, sites, authVars, now>>

\* The memberships are set up while no removal or role change is in progress.
SeedMember(user_id, role) ==
    /\ \A r \in Requests : pc[r] = Idle
    /\ AddUserToSite(user_id, 1, role)

NextRace ==
    \/ \E u \in Users, role \in {"admin", "user"} : SeedMember(u, role)
    \/ \E r \in Requests, u \in Users, s \in SiteIds : BeginRemove(r, u, s)
    \/ \E r \in Requests : CommitRemove(r)
    \/ \E r \in Requests, u \in Users, s \in SiteIds, role \in Roles :
           BeginUpdateRole(r, u, s, role)
    \/ \E r \in Requests : CommitUpdateRole(r)

SpecRace == Init /\ [][NextRace]_vars

\* C5: a request that removes or demotes an admin after counting two admins
\* of the site, while another such request runs, leaves the site with an
\* admin: its count and its write are not separated by the other's write.
C5_ConcurrentRemovalsKeepAnAdmin ==
    (resp.op \in {"remove", "update_role"} /\ resp.admin_count = 2) =>
        resp.had_admin \subseteq SitesWithAdmin(user_site_mapping)

(***************************************************************************)
(* AuthService (auth/services.py)                                          *)
(***************************************************************************)
MAX_LOGIN_ATTEMPTS == 5
\* Lifetime of the attempt counter and of the lock, in clock ticks (scaled).
LOCKOUT_DURATION == 2

\* Passwords tried at login; every user's password is the first.
Passwords == {"secret", "wrong"}
verify_password(password, user_id) == password = "secret"

\* User.query.filter_by(username=username).first(): the user id, or NoInt.
UserByUsername(username) ==
    IF \E u \in Users : UsernameOf[u] = username
    THEN CHOOSE u \in Users : UsernameOf[u] = username
    ELSE NoInt

\* redis_client.get(key) is not None, for a key of one prefix.
RedisHas(space, key) == key \in DOMAIN space /\ space[key].expires_at > now

\* redis_client.set(key, value, ex=ex)
RedisSet(space, key, value, ex) ==
    (key :> [value |-> value, expires_at |-> now + ex]) @@ space

\* redis_client.delete(key)
RedisDelete(space, key) == [k \in DOMAIN space \ {key} |-> space[k]]

\* The variant of the lock check that never finds a lock.
is_account_locked_never(username) == FALSE

\* AuthService.is_account_locked
is_account_locked(username) == RedisHas(redis.locked, username)

\* AuthService.handle_failed_login: count the attempt, lock at the limit.
handle_failed_login(username) ==
    LET attempts == (IF RedisHas(redis.attempts, username)
                     THEN redis.attempts[username].value ELSE 0) + 1
        counted == [redis EXCEPT !.attempts =
                       RedisSet(redis.attempts, username, attempts,
                                LOCKOUT_DURATION)]
    IN IF attempts >= MAX_LOGIN_ATTEMPTS
       THEN [counted EXCEPT !.locked =
                RedisSet(redis.locked, username, 1, LOCKOUT_DURATION)]
       ELSE counted

\* The variant of the reset that keeps the counter and the lock.
reset_failed_login_attempts_kept(username) == redis

\* AuthService._reset_failed_login_attempts
reset_failed_login_attempts(username) ==
    [redis EXCEPT !.attempts = RedisDelete(redis.attempts, username),
                  !.locked = RedisDelete(redis.locked, username)]

\* User.get_site_ids: the sites of the user's rows, in row order.
RECURSIVE get_site_ids(_, _)
get_site_ids(m, user_id) ==
    IF m = <<>> THEN <<>>
    ELSE (IF Head(m).user_id = user_id THEN <<Head(m).site_id>> ELSE <<>>)
             \o get_site_ids(Tail(m), user_id)

\* The run of failed logins of a username after one more failure now: a
\* failure continues the run when it comes before the previous one is
\* LOCKOUT_DURATION old.
StreakAfterFailure(username) ==
    LET st == history.streak[username]
    IN [count |-> (IF st.count > 0 /\ now - st.last < LOCKOUT_DURATION
                   THEN st.count ELSE 0) + 1,
        last |-> now]

LoginReply(username, password, result, token) ==
    [op |-> "login", username |-> username, password |-> password,
     result |-> result, token |-> token, at |-> now,
     streak_before |-> history.streak[username],
     last_login_before |-> last_login, redis_before |-> redis]

\* AuthService.login(username, password)
Login(username, password) ==
    /\ LET user_id == UserByUsername(username)
           site_ids == get_site_ids(user_site_mapping, user_id)
           token == generate_token([sub |-> user_id, sites |-> site_ids,
                                    username |-> username], next_jti)
       IN IF is_account_locked(username)
          THEN /\ resp' = LoginReply(username, password, "Unauthorized: locked", None)
               /\ UNCHANGED <<redis, last_login, tokens, next_jti, history>>
          ELSE IF user_id = NoInt \/ ~verify_password(password, user_id)
          THEN /\ redis' = handle_failed_login(username)
               /\ history' = [history EXCEPT !.streak[username] =
                                 StreakAfterFailure(username)]
               /\ resp' = LoginReply(username, password, "Unauthorized: invalid", None)
               /\ UNCHANGED <<last_login, tokens, next_jti>>
          ELSE /\ redis' = reset_failed_login_attempts(username)
               /\ history' = [history EXCEPT
                                 !.streak[username] = [count |-> 0, last |-> now],
                                 !.reset_near_lock[username] =
                                     /\ RedisHas(redis.attempts, username)
                                     /\ redis.attempts[username].value
                                            = MAX_LOGIN_ATTEMPTS - 1]
               /\ last_login' = [last_login EXCEPT ![user_id] = now]
               /\ IF site_ids = <<>>
                  THEN /\ resp' = LoginReply(username, password, "Forbidden", None)
                       /\ UNCHANGED <<tokens, next_jti>>
                  ELSE /\ next_jti <= MaxTokens
                       /\ tokens' = tokens \cup {token}
                       /\ next_jti' = next_jti + 1
                       /\ resp' = LoginReply(username, password, "ok", token)
    /\ UNCHANGED <<dbVars, siteVars, user_active, TOKEN_BLACKLIST, g, now, pc>>

\* Logins of a user with one membership and of an unknown name, over time.
NextLockout ==
    \/ AddUserToSite(1, 1, "user")
    \/ \E n \in {"alice", "ghost"}, p \in Passwords : Login(n, p)
    \/ Tick

SpecLockout == Init /\ [][NextLockout]_vars

\* The login just answered came after a run of MAX_LOGIN_ATTEMPTS failures.
AfterFailedRun ==
    resp.op = "login" /\ resp.streak_before.count >= MAX_LOGIN_ATTEMPTS

Logout(token) ==
    /\ LET payload == decode_token(token)
       IN IF payload = None
          THEN /\ resp' = [op |-> "logout", token |-> token, result |-> "BadRequest"]
               /\ UNCHANGED <<redis, history>>
          ELSE /\ redis' = [redis EXCEPT !.blacklist =
                               RedisSet(redis.blacklist, payload.jti, 1,
                                        payload.exp - now)]
               /\ history' = [history EXCEPT !.logged_out = @ \cup {token}]
               /\ resp' = [op |-> "logout", token |-> token, result |-> "True"]
    /\ UNCHANGED <<dbVars, siteVars, user_active, last_login, TOKEN_BLACKLIST,
                   tokens, next_jti, g, now, pc>>

\* invalidate_token(token): the token string goes to the in-memory set.
InvalidateToken(worker, token) ==
    /\ TOKEN_BLACKLIST' = [TOKEN_BLACKLIST EXCEPT ![worker] = @ \cup {token}]
    /\ resp' = [op |-> "invalidate_token", token |-> token,
                result |-> IF token \in TOKEN_BLACKLIST[worker] THEN "False"
                           ELSE "True"]
    /\ UNCHANGED <<dbVars, siteVars, user_active, last_login, redis, tokens,
                   history, next_jti, g, now, pc>>

\* GET /interactions/types: a protected endpoint whose handler needs nothing
\* but the published context.
GetInteractionTypes(token, params) ==
    /\ LET gate == Gate(token, params)
       IN /\ g' = IF gate.status = 200 THEN Published(gate) ELSE NoG
          /\ resp' = [op |-> "http", endpoint |-> "get_interaction_types",
                      token |-> token, params |-> params, at |-> now,
                      status |-> gate.status,
                      description |-> IF gate.status = 200 THEN "OK"
                                      ELSE gate.description,
                      handler |-> IF gate.status = 200 THEN "run" ELSE "not run"]
    /\ UNCHANGED <<dbVars, siteVars, authStore, now, pc>>

\* Query strings that name at most a site.
SiteParams ==
    { <<>>, "site_id" :> <<"1">>, "site_id" :> <<"3">>, "site_id" :> <<"x">> }

\* Tokens with a site_ids claim, their revocation and their use over time.
NextGate ==
    \/ \E l \in {<<>>, <<2, 1>>} : CreateAuthToken(1, l)
    \/ CreateAuthToken(2, <<1>>)
    \/ \E t \in tokens \cup {None} : Logout(t)
    \/ \E t \in tokens : InvalidateToken(1, t)
    \/ \E t \in PresentedTokens, q \in SiteParams : GetInteractionTypes(t, q)
    \/ Tick

SpecGate == Init /\ [][NextGate]_vars

\* Logins of a user whose memberships grow, and the use of the tokens.
NextSession ==
    \/ \E s \in Sites : AddUserToSite(1, s, "user")
    \/ \E p \in Passwords : Login("alice", p)
    \/ \E t \in PresentedTokens, q \in {<<>>, "site_id" :> <<"2">>} :
           GetInteractionTypes(t, q)
    \/ Tick

SpecSession == Init /\ [][NextSession]_vars

\* What a request to the types endpoint presented, read back from its reply.
Presented == resp.op = "http" /\ resp.endpoint = "get_interaction_types"

\* The token of the reply is one that was issued, is unexpired at the time
\* of the request and names an existing active user.
GoodToken ==
    /\ resp.token \in tokens
    /\ resp.token.payload.exp > resp.at
    /\ resp.token.payload.sub \in Users
    /\ user_active[resp.token.payload.sub]

\* C6: after logout succeeds for a token, every later request to a protected
\* endpoint presenting that token is rejected with 401 and no user or site
\* context is published.  Stated for the tokens that passed the gate before
\* the logout: unexpired, of an active user, with a site to resolve.
C6_LoggedOutTokenRejected ==
    (/\ Presented
     /\ resp.token \in history.logged_out
     /\ GoodToken
     /\ TokenSiteIds(resp.token.payload) # <<>>
     /\ resp.params = <<>>)
        => (resp.status = 401 /\ g = NoG /\ resp.handler = "not run")

\* C8: the gate publishes (user, site_context) only if a token was present,
\* it validated, it was not revoked, its subject is an existing active user
\* and a site context was resolved; any failure is a rejection with nothing
\* published and the handler not run.
C8_PublishedOnlyAfterEveryCheck ==
    Presented =>
        /\ resp.status = 200 =>
               /\ resp.token # None
               /\ GoodToken
               /\ resp.token \notin TOKEN_BLACKLIST[1]
               /\ resp.token \notin history.logged_out
               /\ g # NoG
               /\ g.site_context.id \in Range(TokenSiteIds(resp.token.payload))
        /\ resp.status # 200 =>
               /\ resp.status \in {401, 403}
               /\ g = NoG
               /\ resp.handler = "not run"

C10_LoginTokenPassesGate ==
    (/\ Presented
     /\ resp.token # None
     /\ GoodToken
     /\ "username" \in DOMAIN resp.token.payload
     /\ resp.params = <<>>)
        => (/\ resp.status = 200
            /\ g # NoG
            /\ g.site_context.id = resp.token.payload.sites[1])

(***************************************************************************)
(* Site creation and deletion (sites/controllers.py, sites/services.py,    *)
(* sites/repositories.py)                                                  *)
(***************************************************************************)
MaxSites == 4
\* Names of create requests: one taken by a seeded site, two free.
SiteNames == {"hq", "north", "south"}

\* SiteRepository.get_site_by_name finds a row.
NameTaken(name) == \E s \in DOMAIN sites.rows : sites.rows[s].name = name

CreateSiteReply(status, user_id, site_id) ==
    [op |-> "create_site", status |-> status, user_id |-> user_id,
     site_id |-> site_id]

\* create_site up to the commit of SiteRepository.create_site: the name check
\* of SiteService.create_site, then the site row is inserted and committed.
BeginCreateSite(r, user_id, name) ==
    /\ pc[r] = Idle
    /\ sites.next_site_id <= MaxSites
    /\ IF NameTaken(name)
       THEN /\ resp' = CreateSiteReply(409, user_id, NoInt)
            /\ UNCHANGED <<sites, pc>>
       ELSE /\ sites' = [rows |-> (sites.next_site_id :>
                                      [name |-> name, is_active |-> TRUE])
                                  @@ sites.rows,
                         next_site_id |-> sites.next_site_id + 1]
            /\ pc' = [pc EXCEPT ![r] = [step |-> "create_site",
                                        user_id |-> user_id,
                                        site_id |-> sites.next_site_id]]
            /\ UNCHANGED resp
    /\ UNCHANGED <<dbVars, user_site_mapping, authVars, now>>

\* The rest of create_site: add_user_to_site(g.user.id, new_site.site_id,
\* 'admin') in a transaction of its own, then 201.
FinishCreateSite(r) ==
    /\ pc[r].step = "create_site"
    /\ LET o == Svc_add_user_to_site(user_site_mapping, pc[r].user_id,
                                     pc[r].site_id, "admin")
       IN /\ user_site_mapping' = o.mapping
          /\ resp' = CreateSiteReply(IF o.result = "ValueError" THEN 400 ELSE 201,
                                     pc[r].user_id, pc[r].site_id)
    /\ pc' = [pc EXCEPT ![r] = Idle]
    /\ UNCHANGED <<dbVars, sites, authVars, now>>

\* The commit inside SiteRepository.add_user_to_site raises: the repository
\* rolls back and returns None, which create_site does not look at.
FailCreateSite(r) ==
    /\ pc[r].step = "create_site"
    /\ resp' = CreateSiteReply(201, pc[r].user_id, pc[r].site_id)
    /\ pc' = [pc EXCEPT ![r] = Idle]
    /\ UNCHANGED <<dbVars, siteVars, authVars, now>>

NextCreateSite ==
    \/ \E r \in Requests, u \in Users, n \in SiteNames : BeginCreateSite(r, u, n)
    \/ \E r \in Requests : FinishCreateSite(r)
    \/ \E r \in Requests : FailCreateSite(r)

SpecCreateSite == Init /\ [][NextCreateSite]_vars

\* Membership rows of a site.
MembersOf(site_id) ==
    {i \in DOMAIN user_site_mapping : user_site_mapping[i].site_id = site_id}

\* C11: no site made by create_site ever exists with zero memberships, and
\* after a successful create_site the creator is admin of the new site.
C11_SiteCreatedWithItsAdmin ==
    /\ \A s \in DOMAIN sites.rows \ Sites : MembersOf(s) # {}
    /\ (resp.op = "create_site" /\ resp.status = 201) =>
           get_user_role_for_site(user_site_mapping, resp.user_id,
                                  resp.site_id) = ADMIN_ROLE

\* The two operations that add a member, and the role each of them stores
\* for the role string it is given.
AddMemberOps == {"add_user_to_site", "associate_user_with_site"}
GivenRole ==
    IF resp.op = "add_user_to_site" THEN RoleLower(resp.role) ELSE resp.role
AddAccepted ==
    /\ resp.op \in AddMemberOps
    /\ SiteExists(resp.site_id)
    /\ RoleLower(resp.role) \in {DEFAULT_SITE_ROLE, ADMIN_ROLE}

\* C12: adding a member for a (user, site) pair that already has a membership
\* does not fail and leaves the membership with the newly given role.
C12_AddMemberUpdatesRole ==
    (AddAccepted /\ resp.role_before # "None") =>
        /\ resp.result = "UserSite"
        /\ get_user_role_for_site(user_site_mapping, resp.user_id,
                                  resp.site_id) = GivenRole

\* C13: after an add of (user, site, role), the same add made again leaves
\* the memberships as they are: exactly one row for the pair, with that role.
C13_AddMemberTwiceIsOnce ==
    AddAccepted =>
        /\ Repeated.result = "UserSite"
        /\ Repeated.mapping = user_site_mapping
        /\ Cardinality(Rows(Repeated.mapping, resp.user_id, resp.site_id)) = 1
        /\ get_user_role_for_site(Repeated.mapping, resp.user_id,
                                  resp.site_id) = GivenRole

(***************************************************************************)
(* add_user_to_site served concurrently: the SELECT for an existing row    *)
(* and the INSERT with its commit are two statements, and another request  *)
(* may run between them.                                                   *)
(***************************************************************************)
\* SiteService.add_user_to_site through the existence query of
\* SiteRepository.add_user_to_site.
BeginAdd(r, user_id, site_id, role) ==
    /\ pc[r] = Idle
    /\ IF ~SiteExists(site_id) \/
          RoleLower(role) \notin {DEFAULT_SITE_ROLE, ADMIN_ROLE}
       THEN /\ resp' = RaceReply("add", r, "ValueError", NoInt)
            /\ UNCHANGED pc
       ELSE IF Rows(user_site_mapping, user_id, site_id) # {}
       THEN /\ resp' = RaceReply("add", r, "UserSite", NoInt)
            /\ UNCHANGED pc
       ELSE /\ pc' = [pc EXCEPT ![r] = [step |-> "add", user_id |-> user_id,
                                        site_id |-> site_id,
                                        role |-> RoleLower(role)]]
            /\ UNCHANGED resp
    /\ UNCHANGED <<dbVars, siteVars, authVars, now>>

\* SiteRepository.add_user_to_site: UserSite(...), db.session.add, commit.
CommitAdd(r) ==
    /\ pc[r].step = "add"
    /\ user_site_mapping' =
           Append(user_site_mapping, [user_id |-> pc[r].user_id,
                                      site_id |-> pc[r].site_id,
                                      role |-> pc[r].role])
    /\ resp' = RaceReply("add", r, "UserSite", NoInt)
    /\ pc' = [pc EXCEPT ![r] = Idle]
    /\ UNCHANGED <<dbVars, sites, authVars, now>>

NextAddRace ==
    \/ \E r \in Requests, u \in Users, s \in SiteIds, role \in Roles :
           BeginAdd(r, u, s, role)
    \/ \E r \in Requests : CommitAdd(r)

SpecAddRace == Init /\ [][NextAddRace]_vars

\* C14: at most one membership row per (user id, site id) pair, in every
\* state, concurrent adds for the same pair included.
C14_OneRowPerUserAndSite ==
    \A i, j \in DOMAIN user_site_mapping :
        (/\ user_site_mapping[i].user_id = user_site_mapping[j].user_id
         /\ user_site_mapping[i].site_id = user_site_mapping[j].site_id)
            => i = j

(***************************************************************************)
(* SiteService.delete_site                                                 *)
(***************************************************************************)
\* Interactions of a site: site.interactions.
InteractionsOf(site_id) == {r \in interactions : r.site_id = site_id}

\* The hard-delete guard that lets every hard delete through.
HardDeleteUnguarded(site_id) == FALSE

\* The guard of a hard delete: get_site_users(site_id).total > 0, or
\* site.interactions.count() > 0.
HardDeleteBlocked(site_id) ==
    \/ Cardinality(MembersOf(site_id)) > 0
    \/ Cardinality(InteractionsOf(site_id)) > 0

\* SiteRepository.delete_site: the row is deleted, or marked inactive.
SiteRepo_delete_site(site_id, hard_delete) ==
    IF ~SiteExists(site_id) THEN [result |-> "False", rows |-> sites.rows]
    ELSE IF hard_delete
    THEN [result |-> "True",
          rows |-> [s \in DOMAIN sites.rows \ {site_id} |-> sites.rows[s]]]
    ELSE [result |-> "True",
          rows |-> [sites.rows EXCEPT ![site_id].is_active = FALSE]]

Svc_delete_site(site_id, hard_delete) ==
    IF ~SiteExists(site_id) THEN [result |-> "False", rows |-> sites.rows]
    ELSE IF hard_delete /\ HardDeleteBlocked(site_id)
    THEN [result |-> "False", rows |-> sites.rows]
    ELSE SiteRepo_delete_site(site_id, hard_delete)

DeleteSite(site_id, hard_delete) ==
    /\ LET o == Svc_delete_site(site_id, hard_delete)
       IN /\ sites' = [sites EXCEPT !.rows = o.rows]
          /\ resp' = [op |-> "delete_site", site_id |-> site_id,
                      hard_delete |-> hard_delete, result |-> o.result,
                      rows_before |-> sites.rows,
                      members_before |-> MembersOf(site_id),
                      interactions_before |-> InteractionsOf(site_id)]
    /\ UNCHANGED <<dbVars, user_site_mapping, authVars, now, pc>>

\* Sites gain members and interactions and are deleted, softly or for good.
NextDeleteSite ==
    \/ \E s \in Sites : AddUserToSite(1, s, "admin")
    \/ \E s \in Sites : RemoveUserFromSite(1, s)
    \/ \E s \in Sites : RepoCreate([title |-> <<"a">>, type |-> <<"A">>,
                                    lead |-> <<"a">>, start_datetime |-> 1,
                                    timezone |-> <<"UTC">>], s, 1)
    \/ \E s \in Sites \cup SiteIds, h \in BOOLEAN : DeleteSite(s, h)

SpecDeleteSite == Init /\ [][NextDeleteSite]_vars

\* C15: a soft delete succeeds for every existing site and only marks it
\* inactive; a hard delete of a site that a membership or an interaction
\* still references is rejected; either way the memberships and interactions
\* of the site stay, and a rejected delete leaves the site as it was.
C15_DeleteSiteSoftAlwaysHardGuarded ==
    (resp.op = "delete_site" /\ resp.site_id \in DOMAIN resp.rows_before) =>
        /\ MembersOf(resp.site_id) = resp.members_before
        /\ InteractionsOf(resp.site_id) = resp.interactions_before
        /\ ~resp.hard_delete =>
               /\ resp.result = "True"
               /\ sites.rows = [resp.rows_before EXCEPT
                                   ![resp.site_id].is_active = FALSE]
        /\ (/\ resp.hard_delete
            /\ (resp.members_before # {} \/ resp.interactions_before # {})) =>
               /\ resp.result = "False"
               /\ sites.rows = resp.rows_before

C15_Witness ==
    /\ resp.op = "delete_site" /\ resp.hard_delete
    /\ resp.members_before = {} /\ resp.interactions_before # {}
    /\ resp.result = "False"
    /\ ~sites.rows[resp.site_id].is_active

StoreCreateData ==
    { [title |-> <<"a">>, type |-> <<"A">>, lead |-> <<"b">>,
       start_datetime |-> 1, timezone |-> <<"a">>],
      [title |-> <<"B">>, type |-> <<"b">>, lead |-> <<"a">>,
       start_datetime |-> 2, timezone |-> <<"a">>, end_datetime |-> 3,
       notes |-> <<"b">>, site_id |-> 2, created_by |-> 9, created_at |-> 9] }

StoreUpdateData ==
    { [title |-> <<"b">>, location |-> NULL],
      [notes |-> <<"a">>, updated_by |-> 9, updated_at |-> 9],
      [lead |-> NULL] }

NextStore ==
    \/ \E d \in StoreCreateData : RepoCreate(d, 1, 1)
    \/ \E i \in InteractionIds, d \in StoreUpdateData :
           RepoUpdate(i, d, <<1>>, 2)
    \/ Tick

SpecStore == Init /\ [][NextStore]_vars

\* The columns a client writes.
ClientColumns == TextColumns \cup IntColumns

\* The value a column takes from a field set that leaves it out.
Unset(k) == IF k \in IntColumns THEN NoInt ELSE NULL

\* The fetch of the record just created, in the site context of the create.
FetchCreated == Repo_get_by_id(resp.interaction.interaction_id, <<resp.site_id>>)

\* C17: an interaction created with valid data in site S by user U and then
\* fetched by id in the same context comes back with the client fields of
\* the input and with site_id = S, created_by = U and created_at the server
\* time of the create.
C17_CreateThenFetch ==
    (resp.op = "create" /\ resp.result = "ok") =>
        /\ FetchCreated.result = "ok"
        /\ \A k \in ClientColumns :
               FetchCreated.interaction[k] =
                   IF k \in DOMAIN resp.interaction_data
                   THEN resp.interaction_data[k] ELSE Unset(k)
        /\ FetchCreated.interaction.site_id = resp.site_id
        /\ FetchCreated.interaction.created_by = resp.user_id
        /\ FetchCreated.interaction.created_at = resp.at

C17_Witness ==
    /\ resp.op = "create" /\ resp.result = "ok"
    /\ "site_id" \in DOMAIN resp.interaction_data
    /\ resp.interaction_data.site_id # resp.site_id
    /\ resp.at > 0
    /\ FetchCreated.interaction.site_id = resp.site_id

\* C18: an update changes exactly the client fields it is given and leaves
\* the other client fields as they were; updated_by and updated_at end as
\* the acting user and the server time, whatever the client sent for them.
C18_UpdateIsPartialAndStamped ==
    (resp.op = "update" /\ resp.result = "ok") =>
        /\ \A k \in ClientColumns :
               resp.interaction[k] =
                   IF k \in DOMAIN resp.interaction_data
                   THEN resp.interaction_data[k] ELSE resp.target[k]
        /\ resp.interaction.updated_by = resp.user_id
        /\ resp.interaction.updated_at = resp.at
        /\ Stored(resp.interaction_id) = resp.interaction

C18_Witness ==
    /\ resp.op = "update" /\ resp.result = "ok"
    /\ "updated_by" \in DOMAIN resp.interaction_data
    /\ resp.at > resp.target.updated_at
    /\ resp.interaction.updated_by = 2
    /\ resp.interaction.notes # resp.target.notes
    /\ resp.interaction.title = resp.target.title

(***************************************************************************)
(* InteractionService.create on data with any mix of invalid fields        *)
(***************************************************************************)
\* A field left out of the data.
Absent == <<"absent">>
WithText(k, v, d) == IF v = Absent THEN d ELSE (k :> v) @@ d
WithInt(k, v, d) == IF v = NoInt THEN d ELSE (k :> v) @@ d

\* Creation data: each of title, type, lead, timezone and end_datetime is
\* valid or invalid in one of the ways validate_interaction looks for.
ValidationData ==
    {WithText("title", title,
       WithInt("end_datetime", end_datetime,
          [type |-> type, lead |-> lead, start_datetime |-> 2,
           timezone |-> timezone])) :
        title \in {Absent, <<"a">>, <<"a", "b", "c">>},
        type \in {<<"A">>, <<"x">>},
        lead \in {<<"b">>, <<>>},
        timezone \in {<<"a">>, <<"z">>},
        end_datetime \in {NoInt, 1, 3}}

\* InteractionService.create; a ValidationError carries the errors dictionary.
ServiceCreate(interaction_data, site_id, user_id) ==
    /\ next_interaction_id <= MaxInteractions
    /\ LET o == Svc_create(interaction_data, PyInt(site_id), PyInt(user_id))
       IN /\ interactions' = o.interactions
          /\ next_interaction_id' = o.next_interaction_id
          /\ resp' = [op |-> "service_create",
                      interaction_data |-> interaction_data,
                      raised |-> o.raised,
                      errors |-> IF o.raised = "ValidationError"
                                 THEN validate_interaction(interaction_data, TRUE)
                                 ELSE {},
                      stored_before |-> interactions]
    /\ UNCHANGED <<siteVars, authVars, now, pc>>

NextValidate ==
    \E d \in ValidationData, s \in Sites : ServiceCreate(d, s, 1)

SpecValidate == Init /\ [][NextValidate]_vars

\* The ways a field of creation data is invalid.
MissingRequired(d, k) ==
    k \in RequiredColumns /\
    (k \notin DOMAIN d \/ (k \in TextColumns /\ d[k] = <<>>))
OverLong(d, k) ==
    k \in DOMAIN MaxLengthOf /\ k \in DOMAIN d /\ Len(d[k]) > MaxLengthOf[k]
UnknownType(d, k) == k = "type" /\ d[k] \notin INTERACTION_TYPES
UnknownTimezone(d, k) == k = "timezone" /\ ~is_valid_timezone(d[k])
EndBeforeStart(d, k) ==
    k = "end_datetime" /\ k \in DOMAIN d /\ d[k] < d.start_datetime
InvalidFields(d) ==
    {k \in ColumnNames :
        \/ MissingRequired(d, k) \/ OverLong(d, k) \/ UnknownType(d, k)
        \/ UnknownTimezone(d, k) \/ EndBeforeStart(d, k)}

\* C19: creation data with invalid fields makes create fail with one
\* ValidationError that lists every invalid field, and stores nothing.
C19_EveryInvalidFieldListed ==
    (resp.op = "service_create" /\ InvalidFields(resp.interaction_data) # {}) =>
        /\ resp.raised = "ValidationError"
        /\ resp.errors = InvalidFields(resp.interaction_data)
        /\ interactions = resp.stored_before

C19_Witness ==
    /\ resp.op = "service_create"
    /\ resp.raised = "ValidationError"
    /\ "title" \in DOMAIN resp.interaction_data
    /\ resp.interaction_data.title = <<"a", "b", "c">>
    /\ resp.errors = {"title", "type", "lead", "timezone", "end_datetime"}
    /\ interactions # {}

(***************************************************************************)
(* Paging of the listing operations                                        *)
(***************************************************************************)
\* validators.MAX_PER_PAGE, scaled from 100 to the size of the tables here.
MAX_PER_PAGE == 1
DEFAULT_PER_PAGE == 25

\* validate_pagination_params(page, per_page); None is NoInt.
validate_pagination_params(page, per_page) ==
    [page |-> IF page # NoInt /\ page > 0 THEN page ELSE DEFAULT_PAGE,
     per_page |-> IF per_page # NoInt /\ per_page > 0
                  THEN Min(per_page, MAX_PER_PAGE) ELSE DEFAULT_PER_PAGE]

\* get_pagination_params(): request.args with the defaults for the keys the
\* query string leaves out (NoInt), then validate_pagination_params.
get_pagination_params(args) ==
    LET v == validate_pagination_params(
                 IF args.page = NoInt THEN DEFAULT_PAGE ELSE args.page,
                 IF args.page_size = NoInt THEN DEFAULT_PAGE_SIZE
                 ELSE args.page_size)
    IN [page |-> v.page, page_size |-> v.per_page]

\* ORDER BY on a text column: the names of the model in alphabetical order.
NameOrder == <<"alice", "bob", "ghost", "hq", "lab", "north", "south">>
NameRank(name) == CHOOSE i \in DOMAIN NameOrder : NameOrder[i] = name

\* PaginatedResult(items, total, page, page_size)
PaginatedResult(items, total, page, page_size) ==
    [items |-> items, total |-> total, page |-> page, page_size |-> page_size]

\* SiteRepository.get_all_sites with pagination parameters: the sites by name.
SiteRepo_get_all_sites(pagination_params, active_only) ==
    LET rows == {s \in DOMAIN sites.rows :
                    active_only => sites.rows[s].is_active}
    IN {PaginatedResult(PageOf(q, pagination_params.page,
                               pagination_params.page_size),
                        Cardinality(rows), pagination_params.page,
                        pagination_params.page_size) :
           q \in {o \in Orderings(rows) :
                     \A i \in 1..(Len(o) - 1) :
                         NameRank(sites.rows[o[i]].name)
                             <= NameRank(sites.rows[o[i + 1]].name)}}

\* SiteRepository.get_site_users: one user per membership row of the site,
\* by username.
SiteRepo_get_site_users(site_id, pagination_params) ==
    LET rows == MembersOf(site_id)
        UserAt(i) == user_site_mapping[i].user_id
    IN {PaginatedResult([i \in DOMAIN PageOf(q, pagination_params.page,
                                             pagination_params.page_size) |->
                            UserAt(PageOf(q, pagination_params.page,
                                          pagination_params.page_size)[i])],
                        Cardinality(rows), pagination_params.page,
                        pagination_params.page_size) :
           q \in {o \in Orderings(rows) :
                     \A i \in 1..(Len(o) - 1) :
                         NameRank(UsernameOf[UserAt(o[i])])
                             <= NameRank(UsernameOf[UserAt(o[i + 1])])}}

\* SiteService.get_site_users: an empty result for a site that does not exist.
Svc_get_site_users(site_id, pagination_params) ==
    IF ~SiteExists(site_id) THEN {PaginatedResult(<<>>, 0, 1, 0)}
    ELSE SiteRepo_get_site_users(site_id, pagination_params)

\* SiteRepository.user_has_site_access
user_has_site_access(user_id, site_id) ==
    Rows(user_site_mapping, user_id, site_id) # {}

\* What a listing request gives: the exception raised ("none" when the
\* request is served), the page size the query ran with, the items fetched.
ListingReply(raised, result) ==
    [raised |-> raised, page_size |-> result.page_size,
     fetched |-> Len(result.items)]

\* GET /api/sites
Ctl_get_sites(args) ==
    {ListingReply("none", r) :
        r \in SiteRepo_get_all_sites(get_pagination_params(args), TRUE)}

\* GET /api/sites/<site_id>/users
Ctl_get_site_users(user_id, site_id, args) ==
    IF ~user_has_site_access(user_id, site_id)
    THEN {ListingReply("AuthorizationError", PaginatedResult(<<>>, 0, 1, 0))}
    ELSE {ListingReply(IF r.total = 0 /\ ~SiteExists(site_id)
                       THEN "ResourceNotFoundError" ELSE "none", r) :
             r \in Svc_get_site_users(site_id, get_pagination_params(args))}

\* GET /api/interactions, from the arguments get_interactions reads
\* (request.args.get('page', 1), request.args.get('page_size', 25)) to the
\* service, which is given the site of the request: get_all without filters,
\* search with them.
InteractionListing(site_id, filters, args) ==
    LET page == IF args.page = NoInt THEN 1 ELSE args.page
        page_size == IF args.page_size = NoInt THEN 25 ELSE args.page_size
        outcomes == IF filters = <<>>
                    THEN Svc_get_all(PyInt(site_id), page, page_size,
                                     "created_at", "desc")
                    ELSE Svc_search(PyInt(site_id), filters, page, page_size,
                                    "created_at", "desc")
    IN {IF o.raised = "none"
        THEN ListingReply("none",
                          PaginatedResult(o.repository.items,
                                          o.repository.total,
                                          PageArg(page), PageSizeArg(page_size)))
        ELSE ListingReply(o.raised, PaginatedResult(<<>>, 0, 1, 0)) :
           o \in outcomes}

\* The replies of a listing operation to a request.
ListingReplies(listing, user_id, site_id, filters, args) ==
    CASE listing = "sites" -> Ctl_get_sites(args)
      [] listing = "site_users" -> Ctl_get_site_users(user_id, site_id, args)
      [] OTHER -> InteractionListing(site_id, filters, args)

List(listing, user_id, site_id, filters, args) ==
    /\ \E o \in ListingReplies(listing, user_id, site_id, filters, args) :
           resp' = [op |-> "list", listing |-> listing, user_id |-> user_id,
                    site_id |-> site_id, filters |-> filters, args |-> args,
                    raised |-> o.raised, page_size |-> o.page_size,
                    fetched |-> o.fetched]
    /\ UNCHANGED <<dbVars, siteVars, authVars, now, pc>>

\* page and page_size of the query string; NoInt when left out.
PageArgs ==
    {[page |-> p, page_size |-> z] : p \in {NoInt, 1, 2},
                                     z \in {NoInt, 0} \cup 1..(MAX_PER_PAGE + 2)}

NextPaging ==
    \/ \E s \in Sites : RepoCreate([title |-> <<"a">>, type |-> <<"A">>,
                                    lead |-> <<"a">>, start_datetime |-> 1,
                                    timezone |-> <<"UTC">>], s, 1)
    \/ \E u \in Users : AddUserToSite(u, 1, "user")
    \/ \E a \in PageArgs : List("sites", 1, 1, <<>>, a)
    \/ \E u \in Users, s \in Sites \cup SiteIds, a \in PageArgs :
           List("site_users", u, s, <<>>, a)
    \/ \E s \in Sites, a \in PageArgs : List("interactions", 1, s, <<>>, a)
    \/ \E s \in Sites, a \in PageArgs :
           List("search", 1, s, "title" :> <<"a">>, a)

SpecPaging == Init /\ [][NextPaging]_vars

\* C20: on every listing operation (interactions list and search, sites, site
\* users) a request whose page_size is above the maximum is answered as the
\* same request with page_size equal to the maximum is (served, not rejected
\* for its page size), its query runs with the maximum as page size, and it
\* fetches no more than the maximum number of items.
C20_PageSizeClampedToMaximum ==
    (resp.op = "list" /\ resp.args.page_size > MAX_PER_PAGE) =>
        /\ resp.raised \in
               {o.raised : o \in ListingReplies(
                                      resp.listing, resp.user_id, resp.site_id,
                                      resp.filters,
                                      [resp.args EXCEPT !.page_size = MAX_PER_PAGE])}
        /\ resp.raised = "none" =>
               /\ resp.page_size = MAX_PER_PAGE
               /\ resp.fetched <= MAX_PER_PAGE

\* The part of C20 the sites listings keep: sites and site users.
C20_SiteListingsClamp ==
    (resp.op = "list" /\ resp.listing \in {"sites", "site_users"}
        /\ resp.args.page_size > MAX_PER_PAGE /\ resp.raised = "none") =>
        (resp.page_size = MAX_PER_PAGE /\ resp.fetched <= MAX_PER_PAGE)

(***************************************************************************)
(* Several server processes (gunicorn.conf.py: workers)                    *)
(***************************************************************************)
\* GET /interactions/types served by one of the workers: its gate reads the
\* module globals of that process.
WorkerRequest(worker, token, params) ==
    /\ LET gate == auth_middleware(worker, token, Get(params, "site_id"))
       IN /\ g' = IF gate.status = 200 THEN Published(gate) ELSE NoG
          /\ resp' = [op |-> "http", endpoint |-> "get_interaction_types",
                      worker |-> worker, token |-> token, params |-> params,
                      at |-> now, status |-> gate.status,
                      handler |-> IF gate.status = 200 THEN "run" ELSE "not run"]
    /\ UNCHANGED <<dbVars, siteVars, authStore, now, pc>>

\* Tokens of user 1, logged out through the service (which worker handles the
\* logout makes no difference to what it writes) or dropped into the memory
\* of one worker, and presented to any worker.
NextWorkers ==
    \/ \E l \in {<<1>>, <<2, 1>>} : CreateAuthToken(1, l)
    \/ \E t \in tokens : Logout(t)
    \/ \E w \in Workers, t \in tokens : InvalidateToken(w, t)
    \/ \E w \in Workers, t \in PresentedTokens : WorkerRequest(w, t, <<>>)
    \/ Tick

SpecWorkers == Init /\ [][NextWorkers]_vars

\* C21: with two or more server processes, a token revoked by a logout is
\* rejected by the gate of every process (401, handler not run), whichever
\* process serves the request.
C21_RevokedInEveryWorker ==
    (resp.op = "http" /\ "worker" \in DOMAIN resp
        /\ resp.token \in history.logged_out) =>
        (resp.status = 401 /\ resp.handler = "not run")

\* What the in-memory set does: a token put into the set of one worker is
\* refused by that worker.
C21_InMemoryRevocationIsLocal ==
    (resp.op = "http" /\ "worker" \in DOMAIN resp
        /\ resp.token \in TOKEN_BLACKLIST[resp.worker]) =>
        resp.status = 401

(***************************************************************************)
(* Tokens and the memberships they were issued from                        *)
(***************************************************************************)
\* The site list a token was issued with: 'site_ids' of create_auth_token,
\* 'sites' of AuthService.login.
IssuedSiteIds(payload) ==
    IF "site_ids" \in DOMAIN payload THEN payload.site_ids
    ELSE IF "sites" \in DOMAIN payload THEN payload.sites
    ELSE <<>>

\* create_auth_token(user.id, [the user's sites now]) as the auth_token
\* fixture of tests/conftest.py issues it.
IssueToken(user_id) ==
    /\ get_site_ids(user_site_mapping, user_id) # <<>>
    /\ CreateAuthToken(user_id, get_site_ids(user_site_mapping, user_id))

\* Memberships of user 1 come and go between the issuance of tokens and
\* their use.
NextSnapshot ==
    \/ \E s \in Sites : AddUserToSite(1, s, "user")
    \/ \E s \in Sites : RemoveUserFromSite(1, s)
    \/ IssueToken(1)
    \/ Login("alice", "secret")
    \/ \E t \in tokens : GetInteractionTypes(t, <<>>)
    \/ Tick

SpecSnapshot == Init /\ [][NextSnapshot]_vars

\* C22: the sites a token authorizes are those embedded at issuance: whatever
\* memberships were added or removed since, a request with the token and no
\* requested site resolves the first site of the issued list, with the issued
\* list as the available sites; a change of memberships shows only in tokens
\* issued after it (by a later login).
C22_SiteSetFixedAtIssuance ==
    (/\ Presented
     /\ resp.token # None
     /\ GoodToken
     /\ IssuedSiteIds(resp.token.payload) # <<>>
     /\ resp.params = <<>>)
        => (/\ resp.status = 200
            /\ g # NoG
            /\ g.site_context.id = IssuedSiteIds(resp.token.payload)[1]
            /\ g.site_context.available_sites = IssuedSiteIds(resp.token.payload))

\* The part of C22 that holds for the tokens of create_auth_token.
C22_FixedForGateTokens ==
    (/\ Presented
     /\ resp.token # None
     /\ GoodToken
     /\ TokenSiteIds(resp.token.payload) # <<>>
     /\ resp.params = <<>>)
        => (/\ resp.status = 200
            /\ g # NoG
            /\ g.site_context.id = TokenSiteIds(resp.token.payload)[1]
            /\ g.site_context.available_sites = TokenSiteIds(resp.token.payload))

\* No change of memberships changes what the gate resolves for any token and
\* any requested site, nor the records in reach of the resolved site.
C22_MembershipChangeLeavesTokens ==
    [][user_site_mapping' # user_site_mapping =>
          \A t \in PresentedTokens, a \in SiteArgs :
              /\ auth_middleware(1, t, a)' = auth_middleware(1, t, a)
              /\ (auth_middleware(1, t, a).status = 200 =>
                     ScopedQuery(<<auth_middleware(1, t, a).site_context.id>>)'
                         = ScopedQuery(<<auth_middleware(1, t, a).site_context.id>>))]_vars

\* A login embeds the memberships of its moment.
C22_LoginEmbedsMemberships ==
    (resp.op = "login" /\ resp.result = "ok") =>
        resp.token.payload.sites
            = get_site_ids(user_site_mapping, resp.token.payload.sub)

(***************************************************************************)
(* Invalid tokens at the gate                                              *)
(***************************************************************************)
\* Issued tokens as a client may present them: intact (valid, later expired),
\* with a signature that does not verify, or cut short.
InvalidTokenForms == tokens \cup {Tampered(t) : t \in tokens}
                         \cup {Garbled(t) : t \in tokens}

NextInvalid ==
    \/ \E l \in {<<1>>, <<2, 1>>} : CreateAuthToken(1, l)
    \/ \E t \in InvalidTokenForms, q \in SiteParams : GetInteractionTypes(t, q)
    \/ Tick

SpecInvalid == Init /\ [][NextInvalid]_vars

\* The three reasons a presented token fails for.
TokenFailures == {"DecodeError", "InvalidSignatureError", "ExpiredSignatureError"}

\* C23: a malformed, an expired and a wrongly signed token all validate to
\* None (no exception), and the gate answers each of them with the same
\* status and the same message, so the reason does not show in the response.
C23_InvalidTokensIndistinguishable ==
    (Presented /\ decode_failure(resp.token, resp.at) \in TokenFailures) =>
        /\ resp.status = 401
        /\ resp.description = "Invalid or expired authentication token"
        /\ g = NoG
        /\ \A t \in InvalidTokenForms :
               decode_failure(t, now) \in TokenFailures =>
                   /\ validate_auth_token(1, t) = None
                   /\ auth_middleware(1, t, Get(resp.params, "site_id")).status
                          = resp.status
                   /\ auth_middleware(1, t, Get(resp.params, "site_id")).description
                          = resp.description

\* An expired token was refused while a cut and a tampered form of a token
\* fail for the two other reasons.
C23_Witness ==
    /\ Presented
    /\ decode_failure(resp.token, resp.at) = "ExpiredSignatureError"
    /\ resp.status = 401
    /\ \E t \in InvalidTokenForms : decode_failure(t, now) = "DecodeError"
    /\ \E t \in InvalidTokenForms : decode_failure(t, now) = "InvalidSignatureError"

(***************************************************************************)
(* The last admin of a site                                                *)
(***************************************************************************)
\* Admins the site of the last membership operation had before it.
AdminsBefore ==
    get_admin_count_for_site(user_site_mapping, resp.site_id)
        + (IF resp.changed /\ resp.role_before = ADMIN_ROLE THEN 1 ELSE 0)

\* The last operation asked to remove or demote the only admin of its site.
LastAdminRequest ==
    /\ resp.op \in {"remove_user_from_site", "update_user_site_role"}
    /\ SiteExists(resp.site_id)
    /\ resp.role_before = ADMIN_ROLE
    /\ resp.op = "update_user_site_role" => RoleLower(resp.role) = DEFAULT_SITE_ROLE
    /\ AdminsBefore <= 1

\* C24: removing or demoting the last admin of a site is reported as a
\* conflict (ResourceConflictError, 409), which is not the outcome of the
\* same operation on a missing site or a missing membership, and nothing is
\* changed.
C24_LastAdminIsConflict ==
    LastAdminRequest =>
        /\ resp.result = "ResourceConflictError"
        /\ ~resp.changed

\* What the code keeps of C24: the request changes nothing.
C24_LastAdminKept ==
    LastAdminRequest => ~resp.changed

\* What removal reports for the last admin is what it reports for a member
\* that does not exist.
C24_RemovalOutcomesDiffer ==
    (LastAdminRequest /\ resp.op = "remove_user_from_site") =>
        resp.result # Svc_remove_user_from_site(user_site_mapping, 2, 3).result

(***************************************************************************)
(* Inactive sites and the tokens of login                                  *)
(***************************************************************************)
\* Sites of user 1 are marked inactive before and after the user logs in.
NextInactive ==
    \/ \E s \in Sites : AddUserToSite(1, s, "user")
    \/ RepoCreate([title |-> <<"a">>, type |-> <<"A">>, lead |-> <<"a">>,
                   start_datetime |-> 1, timezone |-> <<"UTC">>], 1, 1)
    \/ \E s \in Sites : DeleteSite(s, FALSE)
    \/ Login("alice", "secret")

SpecInactive == Init /\ [][NextInactive]_vars

\* C25: the site list of a token issued at login holds only sites that are
\* active at that moment, and marking a site inactive deletes none of its
\* memberships or interactions.
C25_LoginTokenHoldsActiveSitesOnly ==
    /\ (resp.op = "login" /\ resp.result = "ok") =>
           \A s \in Range(IssuedSiteIds(resp.token.payload)) :
               sites.rows[s].is_active
    /\ (resp.op = "delete_site" /\ ~resp.hard_delete) =>
           /\ MembersOf(resp.site_id) = resp.members_before
           /\ InteractionsOf(resp.site_id) = resp.interactions_before

\* The part of C25 that holds: marking a site inactive keeps its data.
C25_InactiveSiteKeepsData ==
    (resp.op = "delete_site" /\ ~resp.hard_delete) =>
        /\ resp.result = "True"
        /\ ~sites.rows[resp.site_id].is_active
        /\ MembersOf(resp.site_id) = resp.members_before
        /\ InteractionsOf(resp.site_id) = resp.interactions_before

(***************************************************************************)
(* Setting the active site (sites/controllers.py)                          *)
(***************************************************************************)
\* POST set_active_site with body {"site_id": site_id} (NoInt: no site_id):
\* behind the gate, the handler checks the site and the caller's membership
\* and assigns g.site_context = {'id': site_id}; flask.g lives as long as the
\* request.  history.active_site keeps the site of the last request that
\* succeeded, by token id.
SetActiveSite(token, site_id) ==
    LET gate == Gate(token, <<>>)
        status == IF gate.status # 200 THEN gate.status
                  ELSE IF site_id = NoInt THEN 400
                  ELSE IF ~SiteExists(site_id) THEN 404
                  ELSE IF ~user_has_site_access(gate.user.id, site_id) THEN 403
                  ELSE 200
    IN /\ g' = IF gate.status # 200 THEN NoG
               ELSE IF status = 200
                    THEN [set |-> TRUE, user |-> gate.user,
                          site_context |-> [id |-> site_id]]
               ELSE Published(gate)
       /\ history' = IF status = 200
                     THEN [history EXCEPT !.active_site =
                              (token.payload.jti :> site_id) @@ @]
                     ELSE history
       /\ resp' = [op |-> "http", endpoint |-> "set_active_site",
                   token |-> token, site_id |-> site_id, at |-> now,
                   status |-> status]
       /\ UNCHANGED <<dbVars, siteVars, user_active, last_login, redis,
                      TOKEN_BLACKLIST, tokens, next_jti, now, pc>>

\* A member of two sites switches between them and goes on with the token.
NextActiveSite ==
    \/ \E s \in Sites : AddUserToSite(1, s, "user")
    \/ IssueToken(1)
    \/ \E t \in tokens, s \in Sites \cup {3, NoInt} : SetActiveSite(t, s)
    \/ \E t \in tokens : GetInteractionTypes(t, <<>>)
    \/ Tick

SpecActiveSite == Init /\ [][NextActiveSite]_vars

\* C26: after a set-active-site request to a site of the user succeeded, a
\* later request with the same token and no site parameter is served with
\* that site as its site context.
C26_ActiveSiteIsKept ==
    (/\ Presented
     /\ resp.token # None
     /\ GoodToken
     /\ resp.params = <<>>
     /\ resp.token.payload.jti \in DOMAIN history.active_site)
        => (/\ resp.status = 200
            /\ g # NoG
            /\ g.site_context.id = history.active_site[resp.token.payload.jti])

\* Within the set-active-site request itself the context is the chosen site.
C26_ActiveSiteDuringRequest ==
    (resp.op = "http" /\ resp.endpoint = "set_active_site" /\ resp.status = 200)
        => (g # NoG /\ g.site_context.id = resp.site_id)

(***************************************************************************)
(* Failed logins handled at the same time                                  *)
(***************************************************************************)
\* login up to the redis_client.get of handle_failed_login: the account is
\* not locked, the user is unknown or the password wrong, and the attempt
\* counter has been read.
BeginFailedLogin(r, username, password) ==
    /\ pc[r] = Idle
    /\ ~is_account_locked(username)
    /\ UserByUsername(username) = NoInt
           \/ ~verify_password(password, UserByUsername(username))
    /\ pc' = [pc EXCEPT ![r] =
                 [step |-> "failed_login", username |-> username,
                  password |-> password,
                  attempts |-> IF RedisHas(redis.attempts, username)
                               THEN redis.attempts[username].value ELSE 0]]
    /\ UNCHANGED <<dbVars, siteVars, authVars, now, g, resp>>

\* The rest of handle_failed_login: the value read, plus one, is written
\* back, the lock is set when it reaches MAX_LOGIN_ATTEMPTS, and login
\* raises Unauthorized.
CommitFailedLogin(r) ==
    /\ pc[r].step = "failed_login"
    /\ LET username == pc[r].username
           attempts == pc[r].attempts + 1
           counted == [redis EXCEPT !.attempts =
                          RedisSet(redis.attempts, username, attempts,
                                   LOCKOUT_DURATION)]
       IN /\ redis' = IF attempts >= MAX_LOGIN_ATTEMPTS
                      THEN [counted EXCEPT !.locked =
                               RedisSet(redis.locked, username, 1,
                                        LOCKOUT_DURATION)]
                      ELSE counted
          /\ history' = [history EXCEPT !.streak[username] =
                            StreakAfterFailure(username)]
          /\ resp' = LoginReply(username, pc[r].password,
                                "Unauthorized: invalid", None)
    /\ pc' = [pc EXCEPT ![r] = Idle]
    /\ UNCHANGED <<dbVars, siteVars, user_active, last_login, TOKEN_BLACKLIST,
                   tokens, next_jti, now, g>>

\* Wrong passwords for alice and attempts for an unknown name, two requests
\* at a time.
NextLoginRace ==
    \/ \E r \in Requests, n \in {"alice", "ghost"} :
           BeginFailedLogin(r, n, "wrong")
    \/ \E r \in Requests : CommitFailedLogin(r)

SpecLoginRace == Init /\ [][NextLoginRace]_vars

\* The stored attempt counter of a username; 0 when there is none.
StoredAttempts(username) ==
    IF RedisHas(redis.attempts, username) THEN redis.attempts[username].value
    ELSE 0

\* C27: every failed attempt is counted, however the attempts interleave:
\* when no attempt is in progress the stored counter of a username is the
\* number of its failed attempts, and from MAX_LOGIN_ATTEMPTS failures on
\* the lock is set.
C27_EveryFailedAttemptCounted ==
    (\A r \in Requests : pc[r] = Idle) =>
        \A n \in Usernames :
            /\ StoredAttempts(n) = history.streak[n].count
            /\ history.streak[n].count >= MAX_LOGIN_ATTEMPTS =>
                   is_account_locked(n)

(***************************************************************************)
(* Logins of an inactive user                                              *)
(***************************************************************************)
\* bob, whose account is inactive, has a membership and logs in; the token
\* goes to the gate.
NextInactiveUser ==
    \/ AddUserToSite(2, 1, "user")
    \/ \E p \in Passwords : Login("bob", p)
    \/ \E t \in tokens : GetInteractionTypes(t, <<>>)
    \/ Tick

SpecInactiveUser == Init /\ [][NextInactiveUser]_vars

\* C28: login issues no token to a user whose active flag is false, whatever
\* the password.
C28_NoTokenForInactiveUser ==
    (/\ resp.op = "login"
     /\ UserByUsername(resp.username) # NoInt
     /\ ~user_active[UserByUsername(resp.username)])
        => (resp.result # "ok" /\ resp.token = None)

\* What stops the token of an inactive user: the gate refuses it.
C28_GateRefusesInactiveUser ==
    (Presented /\ resp.token # None /\ ~user_active[resp.token.payload.sub])
        => (resp.status = 401 /\ g = NoG)

(***************************************************************************)
(* What a rejected login leaves behind                                     *)
(***************************************************************************)
\* C29: a login that ends rejected changes no persistent state but the
\* failure bookkeeping: it stamps no last login and issues no token, and a
\* login rejected for lack of site access (Forbidden) leaves the attempt
\* counter and the lock flag of the username as they were.  Read in the
\* state the login ends in, before the clock moves on.
C29_RejectedLoginLeavesState ==
    (resp.op = "login" /\ resp.result # "ok" /\ now = resp.at) =>
        /\ resp.token = None
        /\ last_login = resp.last_login_before
        /\ resp.result = "Forbidden" => redis = resp.redis_before

\* The part of C29 that holds: the rejections of the lock and of wrong
\* credentials touch nothing but the attempt counter and the lock.
C29_UnauthorizedLeavesState ==
    (resp.op = "login" /\ now = resp.at
        /\ resp.result \in {"Unauthorized: locked", "Unauthorized: invalid"}) =>
        /\ resp.token = None
        /\ last_login = resp.last_login_before
        /\ redis.blacklist = resp.redis_before.blacklist
        /\ resp.result = "Unauthorized: locked" => redis = resp.redis_before

(***************************************************************************)
(* Consecutive failed logins                                               *)
(***************************************************************************)
\* C30: the attempt counter counts consecutive failures only.  A login with
\* the right credentials leaves no counter and no lock flag for the username;
\* an account is locked only after MAX_LOGIN_ATTEMPTS failures in a row with
\* no such login between them, and the counter never exceeds the length of
\* that run; an attempt made while the account is locked changes neither the
\* counter nor the lock.
C30_CounterCountsConsecutiveFailures ==
    /\ (resp.op = "login" /\ resp.result \in {"ok", "Forbidden"}
           /\ now = resp.at) =>
           /\ resp.username \notin DOMAIN redis.attempts
           /\ resp.username \notin DOMAIN redis.locked
    /\ \A n \in Usernames :
           /\ StoredAttempts(n) <= history.streak[n].count
           /\ is_account_locked(n) =>
                  history.streak[n].count >= MAX_LOGIN_ATTEMPTS
    /\ (resp.op = "login" /\ resp.result = "Unauthorized: locked"
           /\ now = resp.at) => redis = resp.redis_before

\* Four failures, a successful login, four more failures: not locked.
C30_Witness ==
    /\ resp.op = "login" /\ resp.username = "alice"
    /\ resp.result = "Unauthorized: invalid"
    /\ history.reset_near_lock["alice"]
    /\ history.streak["alice"].count = MAX_LOGIN_ATTEMPTS - 1
    /\ StoredAttempts("alice") = MAX_LOGIN_ATTEMPTS - 1
    /\ ~is_account_locked("alice")

====
